---- MODULE Spec2Model ----
(***************************************************************************)
(* Event-store benchmark harness (bench-core).                             *)
(*                                                                         *)
(* The specifications share one state:                                     *)
(*   Spec        - WorkflowStrategy::execute of ConcurrentWritersWorkflow  *)
(*                 and ConcurrentReadersWorkflow: the per-task load loops, *)
(*                 the shared samples buffer behind its mutex, the join.   *)
(*   DrawSpec    - execute with one task, over seeds and stream configs.   *)
(*   RunSpec     - run_workload of runner.rs: container start, client      *)
(*                 creation, clock, stats sampler, the inline writer       *)
(*                 tasks, join, summary, container stop.                   *)
(*   FairRunSpec - run_workload of one writer at the most, scheduled       *)
(*                 fairly.                                                 *)
(*   SmokeSpec   - run_workload as the smoke test runs it, fairly.         *)
(*   AdapterSpec - one store adapter and its store, one call at a time.    *)
(*   AxonSpec    - one AxonServerAdapter shared by two callers.            *)
(*   ParseSpec   - parse_memory_size of container_stats.rs.                *)
(*   CliSpec     - the run command of main.rs.                             *)
(*                                                                         *)
(* Time is one clock in milliseconds, with origin at start_at; Instant::now *)
(* and now_ms read it.  The clock moves in steps of TickMs, and the tasks  *)
(* and the stats thread may read it first half a step after start_at.  A   *)
(* Duration is kept as Rust keeps it: whole seconds and nanoseconds.       *)
(*                                                                         *)
(* A u64 is four limbs of 16 bits.  StdRng is the ChaCha12 generator of    *)
(* rand 0.8, seeded through PCG32.  Names and texts are sequences of       *)
(* characters, JSON texts sequences of bytes, and an f64 of a JSON value   *)
(* is its significand and binary exponent.                                 *)
(***************************************************************************)
EXTENDS Integers, Sequences, FiniteSets, Bags, TLC

\* ---------------------------------------------------------------- bounds
MaxTasks == 2
MaxOps == 3
RunOps == 2
TickMs == 1000
StatsTicks == 1

\* ------------------------------------------------------- program constants
WarmupSecs == 1
CooldownSecs == 1
ReadLimit == 100
HotSetCap == 100

MsPerSec == 1000
NanosPerMs == 1000000
NanosPerMicro == 1000
MicrosPerSec == 1000000

Tasks == 1..MaxTasks

\* The time that has passed since start_at was taken when the tasks and the
\* stats thread first read the clock: none, or half a step of the clock.  The
\* readings of a run then fall on the bounds of the warmup, the window and
\* the cooldown, or strictly inside them.
Skews == {0, TickMs \div 2}

\* Sub-millisecond parts of an operation's elapsed time, in nanoseconds: an
\* operation that returns within the same clock reading took one of these (less
\* than a microsecond, or more); across clock readings the part is not drawn.
ElapsedNanos(t0, t1) == IF t1 = t0 THEN {400, 1500} ELSE {0}

\* The workloads a run is given: the measurement window in seconds and the
\* stream selection (zero streams makes the uniform draw panic).
Durations == {1}

\* A name (a distribution, a store, a workflow) is a str: the sequence of its
\* characters.
Zipf == <<90, 105, 112, 102>>  \* "Zipf"
ZipF == <<90, 105, 112, 70>>  \* "ZipF"
zipf == <<122, 105, 112, 102>>  \* "zipf"
uniform == <<117, 110, 105, 102, 111, 114, 109>>  \* "uniform"

\* The seed of the smoke test, and the seeds of the stream-selection runs.
SmokeSeed == 42
Seeds == 0..3
StreamConfigs == {[distribution |-> Zipf, unique_streams |-> 150],
                  [distribution |-> uniform, unique_streams |-> 0]}

\* The streams of the smoke test.
SmokeStreams == [distribution |-> uniform, unique_streams |-> 100]

DrawStreamConfigs ==
    [distribution : {ZipF, zipf, uniform}, unique_streams : {0, 3, 150}]

\* workload.setup, when present: 3 events over 2 streams.
NoSetup == [present |-> FALSE]
Setups == {NoSetup, [present |-> TRUE, events_to_prepopulate |-> 3,
                     prepopulate_streams |-> 2]}

Workloads ==
    [duration_seconds : Durations, writers : 0..MaxTasks,
     readers : 0..MaxTasks, streams : StreamConfigs, setup : Setups]

\* The number of events a successful read returns.
ReadCounts == {0, 2}

VARIABLES
    cli,          \* the run command of main: its position, its outputs
    parse,        \* a call of parse_memory_size: its argument and its result
    seed,         \* the strategy's seed (opts.seed in run_workload)
    strategy,     \* "writers" | "readers" (execute) | "runner" | "smoke"
                  \* (run_workload)
    wl,           \* the Workload: duration_seconds, writers, readers, streams
    phase,        \* position of the coordinator (execute, or run_workload)
    clock,        \* the time now, ms
    instants,     \* start_at, measurement_start, measurement_end, end_at
    task,         \* per task: pc and the locals of the spawned future
    samples,      \* the shared Vec<RawSample>
    samples_lock, \* holder of the tokio Mutex around samples, 0 when free
    joined,       \* tasks whose result join_next has returned
    overall,      \* the merged histogram
    events_written,
    events_read,
    result,       \* what execute / run_workload returned
    done_ops,     \* history of the run's operations (see NoOps)
    container_manager, \* run_workload: the Option<Box<dyn ContainerManager>>
                       \* and how far the container has come
    writer_adapters,   \* run_workload: the Vec of created client instances
    clients,      \* the client instances factory.create has made so far
    sampler,      \* the spawn_blocking stats loop and its two sample Vecs
    metrics,      \* run_workload: the RunMetrics, once built
    ad            \* one client adapter and its store: the adapter-level calls

runvars == <<container_manager, writer_adapters, clients, sampler, metrics,
              ad>>

vars == <<cli, parse, seed, strategy, wl, phase, clock, instants, task, samples, samples_lock,
          joined, overall, events_written, events_read, result, done_ops,
          runvars>>

\* ------------------------------------------------------------- pure parts

Max(a, b) == IF a >= b THEN a ELSE b
Min(a, b) == IF a <= b THEN a ELSE b

measurement_start == instants.measurement_start
measurement_end == instants.measurement_end
end_at == instants.end_at

\* Duration::from_secs, as milliseconds on the clock.
from_secs(s) == s * MsPerSec

\* The clock of a run: warmup, measurement window, cooldown.
Instants(start_at, duration_seconds) ==
    LET ms == start_at + from_secs(WarmupSecs)
        total == from_secs(duration_seconds) + from_secs(WarmupSecs)
                    + from_secs(CooldownSecs)
    IN [start_at |-> start_at,
        measurement_start |-> ms,
        measurement_end |-> ms + from_secs(duration_seconds),
        end_at |-> start_at + total]

\* Instant::elapsed: the Duration since t0, with its sub-millisecond part.
elapsed(t0, frac) ==
    LET d == clock - t0
    IN [secs |-> d \div MsPerSec,
        nanos |-> (d % MsPerSec) * NanosPerMs + frac]

\* Duration::as_micros: whole microseconds, truncated.
as_micros(dur) == dur.secs * MicrosPerSec + dur.nanos \div NanosPerMicro

\* LatencyRecorder::record: the histogram stores max(1, microseconds).
record(rec, dur) == rec (+) SetToBag({Max(as_micros(dur), 1)})

\* Histogram::len: the total count.
hist_len(h) == BagCardinality(h)

\* The sample-capture condition of both loops.
InWindow(now) == now >= measurement_start /\ now <= measurement_end

\* A character is its code point: "zipf" is <<122, 105, 112, 102>>.

\* u8::to_ascii_lowercase, char::to_ascii_lowercase: A to Z lowered.
ascii_lower(c) == IF c >= 65 /\ c <= 90 THEN c + 32 ELSE c

\* core::unicode::conversions::to_lower beyond ASCII, from the Lowercase_Mapping
\* of Unicode 17.0, the version of the standard library of rustc 1.95:
\* <<first, last, step, delta>> takes every step-th character from first to
\* last to the one delta further on.  The table of the standard library is
\* that of the toolchain that builds the program, and src pins none.
LowercaseTable ==
    <<<<192, 214, 1, 32>>, <<216, 222, 1, 32>>, <<256, 302, 2, 1>>, <<306, 310, 2, 1>>,
       <<313, 327, 2, 1>>, <<330, 374, 2, 1>>, <<376, 376, 1, -121>>, <<377, 381, 2, 1>>,
       <<385, 385, 1, 210>>, <<386, 388, 2, 1>>, <<390, 390, 1, 206>>, <<391, 391, 1, 1>>,
       <<393, 394, 1, 205>>, <<395, 395, 1, 1>>, <<398, 398, 1, 79>>, <<399, 399, 1, 202>>,
       <<400, 400, 1, 203>>, <<401, 401, 1, 1>>, <<403, 403, 1, 205>>, <<404, 404, 1, 207>>,
       <<406, 406, 1, 211>>, <<407, 407, 1, 209>>, <<408, 408, 1, 1>>, <<412, 412, 1, 211>>,
       <<413, 413, 1, 213>>, <<415, 415, 1, 214>>, <<416, 420, 2, 1>>, <<422, 422, 1, 218>>,
       <<423, 423, 1, 1>>, <<425, 425, 1, 218>>, <<428, 428, 1, 1>>, <<430, 430, 1, 218>>,
       <<431, 431, 1, 1>>, <<433, 434, 1, 217>>, <<435, 437, 2, 1>>, <<439, 439, 1, 219>>,
       <<440, 440, 1, 1>>, <<444, 444, 1, 1>>, <<452, 452, 1, 2>>, <<453, 453, 1, 1>>,
       <<455, 455, 1, 2>>, <<456, 456, 1, 1>>, <<458, 458, 1, 2>>, <<459, 475, 2, 1>>,
       <<478, 494, 2, 1>>, <<497, 497, 1, 2>>, <<498, 500, 2, 1>>, <<502, 502, 1, -97>>,
       <<503, 503, 1, -56>>, <<504, 542, 2, 1>>, <<544, 544, 1, -130>>, <<546, 562, 2, 1>>,
       <<570, 570, 1, 10795>>, <<571, 571, 1, 1>>, <<573, 573, 1, -163>>, <<574, 574, 1, 10792>>,
       <<577, 577, 1, 1>>, <<579, 579, 1, -195>>, <<580, 580, 1, 69>>, <<581, 581, 1, 71>>,
       <<582, 590, 2, 1>>, <<880, 882, 2, 1>>, <<886, 886, 1, 1>>, <<895, 895, 1, 116>>,
       <<902, 902, 1, 38>>, <<904, 906, 1, 37>>, <<908, 908, 1, 64>>, <<910, 911, 1, 63>>,
       <<913, 929, 1, 32>>, <<931, 939, 1, 32>>, <<975, 975, 1, 8>>, <<984, 1006, 2, 1>>,
       <<1012, 1012, 1, -60>>, <<1015, 1015, 1, 1>>, <<1017, 1017, 1, -7>>, <<1018, 1018, 1, 1>>,
       <<1021, 1023, 1, -130>>, <<1024, 1039, 1, 80>>, <<1040, 1071, 1, 32>>, <<1120, 1152, 2, 1>>,
       <<1162, 1214, 2, 1>>, <<1216, 1216, 1, 15>>, <<1217, 1229, 2, 1>>, <<1232, 1326, 2, 1>>,
       <<1329, 1366, 1, 48>>, <<4256, 4293, 1, 7264>>, <<4295, 4295, 1, 7264>>, <<4301, 4301, 1, 7264>>,
       <<5024, 5103, 1, 38864>>, <<5104, 5109, 1, 8>>, <<7305, 7305, 1, 1>>, <<7312, 7354, 1, -3008>>,
       <<7357, 7359, 1, -3008>>, <<7680, 7828, 2, 1>>, <<7838, 7838, 1, -7615>>, <<7840, 7934, 2, 1>>,
       <<7944, 7951, 1, -8>>, <<7960, 7965, 1, -8>>, <<7976, 7983, 1, -8>>, <<7992, 7999, 1, -8>>,
       <<8008, 8013, 1, -8>>, <<8025, 8031, 2, -8>>, <<8040, 8047, 1, -8>>, <<8072, 8079, 1, -8>>,
       <<8088, 8095, 1, -8>>, <<8104, 8111, 1, -8>>, <<8120, 8121, 1, -8>>, <<8122, 8123, 1, -74>>,
       <<8124, 8124, 1, -9>>, <<8136, 8139, 1, -86>>, <<8140, 8140, 1, -9>>, <<8152, 8153, 1, -8>>,
       <<8154, 8155, 1, -100>>, <<8168, 8169, 1, -8>>, <<8170, 8171, 1, -112>>, <<8172, 8172, 1, -7>>,
       <<8184, 8185, 1, -128>>, <<8186, 8187, 1, -126>>, <<8188, 8188, 1, -9>>, <<8486, 8486, 1, -7517>>,
       <<8490, 8490, 1, -8383>>, <<8491, 8491, 1, -8262>>, <<8498, 8498, 1, 28>>, <<8544, 8559, 1, 16>>,
       <<8579, 8579, 1, 1>>, <<9398, 9423, 1, 26>>, <<11264, 11311, 1, 48>>, <<11360, 11360, 1, 1>>,
       <<11362, 11362, 1, -10743>>, <<11363, 11363, 1, -3814>>, <<11364, 11364, 1, -10727>>, <<11367, 11371, 2, 1>>,
       <<11373, 11373, 1, -10780>>, <<11374, 11374, 1, -10749>>, <<11375, 11375, 1, -10783>>, <<11376, 11376, 1, -10782>>,
       <<11378, 11378, 1, 1>>, <<11381, 11381, 1, 1>>, <<11390, 11391, 1, -10815>>, <<11392, 11490, 2, 1>>,
       <<11499, 11501, 2, 1>>, <<11506, 11506, 1, 1>>, <<42560, 42604, 2, 1>>, <<42624, 42650, 2, 1>>,
       <<42786, 42798, 2, 1>>, <<42802, 42862, 2, 1>>, <<42873, 42875, 2, 1>>, <<42877, 42877, 1, -35332>>,
       <<42878, 42886, 2, 1>>, <<42891, 42891, 1, 1>>, <<42893, 42893, 1, -42280>>, <<42896, 42898, 2, 1>>,
       <<42902, 42920, 2, 1>>, <<42922, 42922, 1, -42308>>, <<42923, 42923, 1, -42319>>, <<42924, 42924, 1, -42315>>,
       <<42925, 42925, 1, -42305>>, <<42926, 42926, 1, -42308>>, <<42928, 42928, 1, -42258>>, <<42929, 42929, 1, -42282>>,
       <<42930, 42930, 1, -42261>>, <<42931, 42931, 1, 928>>, <<42932, 42946, 2, 1>>, <<42948, 42948, 1, -48>>,
       <<42949, 42949, 1, -42307>>, <<42950, 42950, 1, -35384>>, <<42951, 42953, 2, 1>>, <<42955, 42955, 1, -42343>>,
       <<42956, 42970, 2, 1>>, <<42972, 42972, 1, -42561>>, <<42997, 42997, 1, 1>>, <<65313, 65338, 1, 32>>,
       <<66560, 66599, 1, 40>>, <<66736, 66771, 1, 40>>, <<66928, 66938, 1, 39>>, <<66940, 66954, 1, 39>>,
       <<66956, 66962, 1, 39>>, <<66964, 66965, 1, 39>>, <<68736, 68786, 1, 64>>, <<68944, 68965, 1, 32>>,
       <<71840, 71871, 1, 32>>, <<93760, 93791, 1, 32>>, <<93856, 93880, 1, 27>>, <<125184, 125217, 1, 34>>>>

\* U+0130 is the one character whose lower case is two: i and U+0307.
LowercaseMulti == 304

\* core::unicode::Cased and core::unicode::Case_Ignorable beyond ASCII: the
\* ranges <<first, last>> of the two properties.
CasedTable ==
    <<<<170, 170>>, <<181, 181>>, <<186, 186>>, <<192, 214>>, <<216, 246>>,
       <<248, 442>>, <<444, 447>>, <<452, 659>>, <<662, 696>>, <<704, 705>>,
       <<736, 740>>, <<837, 837>>, <<880, 883>>, <<886, 887>>, <<890, 893>>,
       <<895, 895>>, <<902, 902>>, <<904, 906>>, <<908, 908>>, <<910, 929>>,
       <<931, 1013>>, <<1015, 1153>>, <<1162, 1327>>, <<1329, 1366>>, <<1376, 1416>>,
       <<4256, 4293>>, <<4295, 4295>>, <<4301, 4301>>, <<4304, 4346>>, <<4348, 4351>>,
       <<5024, 5109>>, <<5112, 5117>>, <<7296, 7306>>, <<7312, 7354>>, <<7357, 7359>>,
       <<7424, 7615>>, <<7680, 7957>>, <<7960, 7965>>, <<7968, 8005>>, <<8008, 8013>>,
       <<8016, 8023>>, <<8025, 8025>>, <<8027, 8027>>, <<8029, 8029>>, <<8031, 8061>>,
       <<8064, 8116>>, <<8118, 8124>>, <<8126, 8126>>, <<8130, 8132>>, <<8134, 8140>>,
       <<8144, 8147>>, <<8150, 8155>>, <<8160, 8172>>, <<8178, 8180>>, <<8182, 8188>>,
       <<8305, 8305>>, <<8319, 8319>>, <<8336, 8348>>, <<8450, 8450>>, <<8455, 8455>>,
       <<8458, 8467>>, <<8469, 8469>>, <<8473, 8477>>, <<8484, 8484>>, <<8486, 8486>>,
       <<8488, 8488>>, <<8490, 8493>>, <<8495, 8500>>, <<8505, 8505>>, <<8508, 8511>>,
       <<8517, 8521>>, <<8526, 8526>>, <<8544, 8575>>, <<8579, 8580>>, <<9398, 9449>>,
       <<11264, 11492>>, <<11499, 11502>>, <<11506, 11507>>, <<11520, 11557>>, <<11559, 11559>>,
       <<11565, 11565>>, <<42560, 42605>>, <<42624, 42653>>, <<42786, 42887>>, <<42891, 42894>>,
       <<42896, 42972>>, <<42993, 42998>>, <<43000, 43002>>, <<43824, 43866>>, <<43868, 43881>>,
       <<43888, 43967>>, <<64256, 64262>>, <<64275, 64279>>, <<65313, 65338>>, <<65345, 65370>>,
       <<66560, 66639>>, <<66736, 66771>>, <<66776, 66811>>, <<66928, 66938>>, <<66940, 66954>>,
       <<66956, 66962>>, <<66964, 66965>>, <<66967, 66977>>, <<66979, 66993>>, <<66995, 67001>>,
       <<67003, 67004>>, <<67456, 67456>>, <<67459, 67461>>, <<67463, 67504>>, <<67506, 67514>>,
       <<68736, 68786>>, <<68800, 68850>>, <<68944, 68965>>, <<68976, 68997>>, <<71840, 71903>>,
       <<93760, 93823>>, <<93856, 93880>>, <<93883, 93907>>, <<119808, 119892>>, <<119894, 119964>>,
       <<119966, 119967>>, <<119970, 119970>>, <<119973, 119974>>, <<119977, 119980>>, <<119982, 119993>>,
       <<119995, 119995>>, <<119997, 120003>>, <<120005, 120069>>, <<120071, 120074>>, <<120077, 120084>>,
       <<120086, 120092>>, <<120094, 120121>>, <<120123, 120126>>, <<120128, 120132>>, <<120134, 120134>>,
       <<120138, 120144>>, <<120146, 120485>>, <<120488, 120512>>, <<120514, 120538>>, <<120540, 120570>>,
       <<120572, 120596>>, <<120598, 120628>>, <<120630, 120654>>, <<120656, 120686>>, <<120688, 120712>>,
       <<120714, 120744>>, <<120746, 120770>>, <<120772, 120779>>, <<122624, 122633>>, <<122635, 122654>>,
       <<122661, 122666>>, <<122928, 122989>>, <<125184, 125251>>, <<127280, 127305>>, <<127312, 127337>>,
       <<127344, 127369>>>>

CaseIgnorableTable ==
    <<<<168, 168>>, <<173, 173>>, <<175, 175>>, <<180, 180>>, <<183, 184>>,
       <<688, 879>>, <<884, 885>>, <<890, 890>>, <<900, 901>>, <<903, 903>>,
       <<1155, 1161>>, <<1369, 1369>>, <<1375, 1375>>, <<1425, 1469>>, <<1471, 1471>>,
       <<1473, 1474>>, <<1476, 1477>>, <<1479, 1479>>, <<1524, 1524>>, <<1536, 1541>>,
       <<1552, 1562>>, <<1564, 1564>>, <<1600, 1600>>, <<1611, 1631>>, <<1648, 1648>>,
       <<1750, 1757>>, <<1759, 1768>>, <<1770, 1773>>, <<1807, 1807>>, <<1809, 1809>>,
       <<1840, 1866>>, <<1958, 1968>>, <<2027, 2037>>, <<2042, 2042>>, <<2045, 2045>>,
       <<2070, 2093>>, <<2137, 2139>>, <<2184, 2184>>, <<2192, 2193>>, <<2199, 2207>>,
       <<2249, 2306>>, <<2362, 2362>>, <<2364, 2364>>, <<2369, 2376>>, <<2381, 2381>>,
       <<2385, 2391>>, <<2402, 2403>>, <<2417, 2417>>, <<2433, 2433>>, <<2492, 2492>>,
       <<2497, 2500>>, <<2509, 2509>>, <<2530, 2531>>, <<2558, 2558>>, <<2561, 2562>>,
       <<2620, 2620>>, <<2625, 2626>>, <<2631, 2632>>, <<2635, 2637>>, <<2641, 2641>>,
       <<2672, 2673>>, <<2677, 2677>>, <<2689, 2690>>, <<2748, 2748>>, <<2753, 2757>>,
       <<2759, 2760>>, <<2765, 2765>>, <<2786, 2787>>, <<2810, 2815>>, <<2817, 2817>>,
       <<2876, 2876>>, <<2879, 2879>>, <<2881, 2884>>, <<2893, 2893>>, <<2901, 2902>>,
       <<2914, 2915>>, <<2946, 2946>>, <<3008, 3008>>, <<3021, 3021>>, <<3072, 3072>>,
       <<3076, 3076>>, <<3132, 3132>>, <<3134, 3136>>, <<3142, 3144>>, <<3146, 3149>>,
       <<3157, 3158>>, <<3170, 3171>>, <<3201, 3201>>, <<3260, 3260>>, <<3263, 3263>>,
       <<3270, 3270>>, <<3276, 3277>>, <<3298, 3299>>, <<3328, 3329>>, <<3387, 3388>>,
       <<3393, 3396>>, <<3405, 3405>>, <<3426, 3427>>, <<3457, 3457>>, <<3530, 3530>>,
       <<3538, 3540>>, <<3542, 3542>>, <<3633, 3633>>, <<3636, 3642>>, <<3654, 3662>>,
       <<3761, 3761>>, <<3764, 3772>>, <<3782, 3782>>, <<3784, 3790>>, <<3864, 3865>>,
       <<3893, 3893>>, <<3895, 3895>>, <<3897, 3897>>, <<3953, 3966>>, <<3968, 3972>>,
       <<3974, 3975>>, <<3981, 3991>>, <<3993, 4028>>, <<4038, 4038>>, <<4141, 4144>>,
       <<4146, 4151>>, <<4153, 4154>>, <<4157, 4158>>, <<4184, 4185>>, <<4190, 4192>>,
       <<4209, 4212>>, <<4226, 4226>>, <<4229, 4230>>, <<4237, 4237>>, <<4253, 4253>>,
       <<4348, 4348>>, <<4957, 4959>>, <<5906, 5908>>, <<5938, 5939>>, <<5970, 5971>>,
       <<6002, 6003>>, <<6068, 6069>>, <<6071, 6077>>, <<6086, 6086>>, <<6089, 6099>>,
       <<6103, 6103>>, <<6109, 6109>>, <<6155, 6159>>, <<6211, 6211>>, <<6277, 6278>>,
       <<6313, 6313>>, <<6432, 6434>>, <<6439, 6440>>, <<6450, 6450>>, <<6457, 6459>>,
       <<6679, 6680>>, <<6683, 6683>>, <<6742, 6742>>, <<6744, 6750>>, <<6752, 6752>>,
       <<6754, 6754>>, <<6757, 6764>>, <<6771, 6780>>, <<6783, 6783>>, <<6823, 6823>>,
       <<6832, 6877>>, <<6880, 6891>>, <<6912, 6915>>, <<6964, 6964>>, <<6966, 6970>>,
       <<6972, 6972>>, <<6978, 6978>>, <<7019, 7027>>, <<7040, 7041>>, <<7074, 7077>>,
       <<7080, 7081>>, <<7083, 7085>>, <<7142, 7142>>, <<7144, 7145>>, <<7149, 7149>>,
       <<7151, 7153>>, <<7212, 7219>>, <<7222, 7223>>, <<7288, 7293>>, <<7376, 7378>>,
       <<7380, 7392>>, <<7394, 7400>>, <<7405, 7405>>, <<7412, 7412>>, <<7416, 7417>>,
       <<7468, 7530>>, <<7544, 7544>>, <<7579, 7679>>, <<8125, 8125>>, <<8127, 8129>>,
       <<8141, 8143>>, <<8157, 8159>>, <<8173, 8175>>, <<8189, 8190>>, <<8203, 8207>>,
       <<8216, 8217>>, <<8228, 8228>>, <<8231, 8231>>, <<8234, 8238>>, <<8288, 8292>>,
       <<8294, 8303>>, <<8305, 8305>>, <<8319, 8319>>, <<8336, 8348>>, <<8400, 8432>>,
       <<11388, 11389>>, <<11503, 11505>>, <<11631, 11631>>, <<11647, 11647>>, <<11744, 11775>>,
       <<11823, 11823>>, <<12293, 12293>>, <<12330, 12333>>, <<12337, 12341>>, <<12347, 12347>>,
       <<12441, 12446>>, <<12540, 12542>>, <<40981, 40981>>, <<42232, 42237>>, <<42508, 42508>>,
       <<42607, 42610>>, <<42612, 42621>>, <<42623, 42623>>, <<42652, 42655>>, <<42736, 42737>>,
       <<42752, 42785>>, <<42864, 42864>>, <<42888, 42890>>, <<42993, 42996>>, <<43000, 43001>>,
       <<43010, 43010>>, <<43014, 43014>>, <<43019, 43019>>, <<43045, 43046>>, <<43052, 43052>>,
       <<43204, 43205>>, <<43232, 43249>>, <<43263, 43263>>, <<43302, 43309>>, <<43335, 43345>>,
       <<43392, 43394>>, <<43443, 43443>>, <<43446, 43449>>, <<43452, 43453>>, <<43471, 43471>>,
       <<43493, 43494>>, <<43561, 43566>>, <<43569, 43570>>, <<43573, 43574>>, <<43587, 43587>>,
       <<43596, 43596>>, <<43632, 43632>>, <<43644, 43644>>, <<43696, 43696>>, <<43698, 43700>>,
       <<43703, 43704>>, <<43710, 43711>>, <<43713, 43713>>, <<43741, 43741>>, <<43756, 43757>>,
       <<43763, 43764>>, <<43766, 43766>>, <<43867, 43871>>, <<43881, 43883>>, <<44005, 44005>>,
       <<44008, 44008>>, <<44013, 44013>>, <<64286, 64286>>, <<64434, 64450>>, <<65024, 65039>>,
       <<65043, 65043>>, <<65056, 65071>>, <<65106, 65106>>, <<65109, 65109>>, <<65279, 65279>>,
       <<65287, 65287>>, <<65294, 65294>>, <<65306, 65306>>, <<65342, 65342>>, <<65344, 65344>>,
       <<65392, 65392>>, <<65438, 65439>>, <<65507, 65507>>, <<65529, 65531>>, <<66045, 66045>>,
       <<66272, 66272>>, <<66422, 66426>>, <<67456, 67461>>, <<67463, 67504>>, <<67506, 67514>>,
       <<68097, 68099>>, <<68101, 68102>>, <<68108, 68111>>, <<68152, 68154>>, <<68159, 68159>>,
       <<68325, 68326>>, <<68900, 68903>>, <<68942, 68942>>, <<68969, 68973>>, <<68975, 68975>>,
       <<69291, 69292>>, <<69317, 69317>>, <<69370, 69375>>, <<69446, 69456>>, <<69506, 69509>>,
       <<69633, 69633>>, <<69688, 69702>>, <<69744, 69744>>, <<69747, 69748>>, <<69759, 69761>>,
       <<69811, 69814>>, <<69817, 69818>>, <<69821, 69821>>, <<69826, 69826>>, <<69837, 69837>>,
       <<69888, 69890>>, <<69927, 69931>>, <<69933, 69940>>, <<70003, 70003>>, <<70016, 70017>>,
       <<70070, 70078>>, <<70089, 70092>>, <<70095, 70095>>, <<70191, 70193>>, <<70196, 70196>>,
       <<70198, 70199>>, <<70206, 70206>>, <<70209, 70209>>, <<70367, 70367>>, <<70371, 70378>>,
       <<70400, 70401>>, <<70459, 70460>>, <<70464, 70464>>, <<70502, 70508>>, <<70512, 70516>>,
       <<70587, 70592>>, <<70606, 70606>>, <<70608, 70608>>, <<70610, 70610>>, <<70625, 70626>>,
       <<70712, 70719>>, <<70722, 70724>>, <<70726, 70726>>, <<70750, 70750>>, <<70835, 70840>>,
       <<70842, 70842>>, <<70847, 70848>>, <<70850, 70851>>, <<71090, 71093>>, <<71100, 71101>>,
       <<71103, 71104>>, <<71132, 71133>>, <<71219, 71226>>, <<71229, 71229>>, <<71231, 71232>>,
       <<71339, 71339>>, <<71341, 71341>>, <<71344, 71349>>, <<71351, 71351>>, <<71453, 71453>>,
       <<71455, 71455>>, <<71458, 71461>>, <<71463, 71467>>, <<71727, 71735>>, <<71737, 71738>>,
       <<71995, 71996>>, <<71998, 71998>>, <<72003, 72003>>, <<72148, 72151>>, <<72154, 72155>>,
       <<72160, 72160>>, <<72193, 72202>>, <<72243, 72248>>, <<72251, 72254>>, <<72263, 72263>>,
       <<72273, 72278>>, <<72281, 72283>>, <<72330, 72342>>, <<72344, 72345>>, <<72544, 72544>>,
       <<72546, 72548>>, <<72550, 72550>>, <<72752, 72758>>, <<72760, 72765>>, <<72767, 72767>>,
       <<72850, 72871>>, <<72874, 72880>>, <<72882, 72883>>, <<72885, 72886>>, <<73009, 73014>>,
       <<73018, 73018>>, <<73020, 73021>>, <<73023, 73029>>, <<73031, 73031>>, <<73104, 73105>>,
       <<73109, 73109>>, <<73111, 73111>>, <<73177, 73177>>, <<73459, 73460>>, <<73472, 73473>>,
       <<73526, 73530>>, <<73536, 73536>>, <<73538, 73538>>, <<73562, 73562>>, <<78896, 78912>>,
       <<78919, 78933>>, <<90398, 90409>>, <<90413, 90415>>, <<92912, 92916>>, <<92976, 92982>>,
       <<92992, 92995>>, <<93504, 93506>>, <<93547, 93548>>, <<94031, 94031>>, <<94095, 94111>>,
       <<94176, 94177>>, <<94179, 94180>>, <<94194, 94195>>, <<110576, 110579>>, <<110581, 110587>>,
       <<110589, 110590>>, <<113821, 113822>>, <<113824, 113827>>, <<118528, 118573>>, <<118576, 118598>>,
       <<119143, 119145>>, <<119155, 119170>>, <<119173, 119179>>, <<119210, 119213>>, <<119362, 119364>>,
       <<121344, 121398>>, <<121403, 121452>>, <<121461, 121461>>, <<121476, 121476>>, <<121499, 121503>>,
       <<121505, 121519>>, <<122880, 122886>>, <<122888, 122904>>, <<122907, 122913>>, <<122915, 122916>>,
       <<122918, 122922>>, <<122928, 122989>>, <<123023, 123023>>, <<123184, 123197>>, <<123566, 123566>>,
       <<123628, 123631>>, <<124139, 124143>>, <<124398, 124399>>, <<124643, 124643>>, <<124646, 124646>>,
       <<124654, 124655>>, <<124661, 124661>>, <<124671, 124671>>, <<125136, 125142>>, <<125252, 125259>>,
       <<127995, 127999>>, <<917505, 917505>>, <<917536, 917631>>, <<917760, 917999>>>>

in_steps(c, r) == r[1] <= c /\ c <= r[2] /\ (c - r[1]) % r[3] = 0
within(c, r) == r[1] <= c /\ c <= r[2]

\* conversions::to_lower: the lower case of one character, which is the
\* character itself when it has none.
lowered_by(c, at) ==
    IF at = {} THEN <<c>>
    ELSE <<c + LowercaseTable[CHOOSE k \in at : TRUE][4]>>
to_lower(c) ==
    IF c < 128 THEN <<ascii_lower(c)>>
    ELSE IF c = LowercaseMulti THEN <<105, 775>>
    ELSE lowered_by(c, {k \in DOMAIN LowercaseTable :
                           in_steps(c, LowercaseTable[k])})

Cased(c) ==
    IF c < 128 THEN (c >= 65 /\ c <= 90) \/ (c >= 97 /\ c <= 122)
    ELSE \E k \in DOMAIN CasedTable : within(c, CasedTable[k])

Case_Ignorable(c) ==
    IF c < 128 THEN c \in {39, 46, 58, 94, 96}
    ELSE \E k \in DOMAIN CaseIgnorableTable : within(c, CaseIgnorableTable[k])

\* iter.skip_while(Case_Ignorable).next() is a Cased character; `iter` in the
\* order of the iteration.
RECURSIVE case_ignorable_then_cased(_)
case_ignorable_then_cased(iter) ==
    IF iter = <<>> THEN FALSE
    ELSE IF Case_Ignorable(Head(iter)) THEN case_ignorable_then_cased(Tail(iter))
    ELSE Cased(Head(iter))

rev(s) == [k \in 1..Len(s) |-> s[Len(s) + 1 - k]]

\* map_uppercase_sigma: U+03A3 at i is U+03C2 at the end of a word, after a
\* cased letter and before none, and U+03C3 anywhere else.
Sigma == 931
map_uppercase_sigma(from, i) ==
    IF /\ case_ignorable_then_cased(rev(SubSeq(from, 1, i - 1)))
       /\ ~case_ignorable_then_cased(SubSeq(from, i + 1, Len(from)))
    THEN 962 ELSE 963

\* str::to_lowercase: every character lowered, the capital sigma by its
\* place in the word.
RECURSIVE lowercase_from(_, _)
lowercase_from(s, i) ==
    IF i > Len(s) THEN <<>>
    ELSE (IF s[i] = Sigma THEN <<map_uppercase_sigma(s, i)>>
          ELSE to_lower(s[i])) \o lowercase_from(s, i + 1)
to_lowercase(s) == lowercase_from(s, 1)

\* let use_heavy_tail = streams.distribution.to_lowercase() == "zipf"
use_heavy_tail(w) == to_lowercase(w.distribution) = zipf

hot_set(w) == Min(HotSetCap, Max(w.unique_streams, 1))

\* rng.gen_range(0..n): the values it can return; empty means it panics.
gen_range(n) == 0..(n - 1)

\* ------------------------------------------------ machine words
\* A u32 is two 16-bit limbs, a u64 four, a byte string its bytes; the least
\* significant comes first.
Limb == 65536
Byte == 256

\* a ^ b of two limbs: bit by bit for four bits, then four bits at a time.
RECURSIVE bitxor(_, _)
bitxor(a, b) ==
    IF a = 0 THEN b ELSE IF b = 0 THEN a
    ELSE ((a + b) % 2) + 2 * bitxor(a \div 2, b \div 2)
Xor4 == [a \in 0..15 |-> [b \in 0..15 |-> bitxor(a, b)] @@ <<>>] @@ <<>>
RECURSIVE limbxor(_, _)
limbxor(a, b) ==
    IF a = 0 THEN b ELSE IF b = 0 THEN a
    ELSE Xor4[a % 16][b % 16] + 16 * limbxor(a \div 16, b \div 16)

limb_at(x, i) == IF i >= 1 /\ i <= Len(x) THEN x[i] ELSE 0

\* x ^ y, limb by limb.
RECURSIVE xor_from(_, _, _)
xor_from(x, y, i) ==
    IF i > Len(x) THEN <<>>
    ELSE <<limbxor(x[i], y[i])>> \o xor_from(x, y, i + 1)
xor(x, y) == xor_from(x, y, 1)

\* x.wrapping_add(y)
RECURSIVE add_from(_, _, _, _)
summed(x, y, i, t) == <<t % Limb>> \o add_from(x, y, i + 1, t \div Limb)
add_from(x, y, i, carry) ==
    IF i > Len(x) THEN <<>>
    ELSE summed(x, y, i, x[i] + limb_at(y, i) + carry)
wrapping_add(x, y) == add_from(x, y, 1, 0)

\* x.wrapping_sub(1)
RECURSIVE dec_from(_, _)
dec_from(x, i) ==
    IF i > Len(x) THEN <<>>
    ELSE IF x[i] = 0 THEN <<Limb - 1>> \o dec_from(x, i + 1)
    ELSE <<x[i] - 1>> \o SubSeq(x, i + 1, Len(x))
wrapping_dec(x) == dec_from(x, 1)

\* x >> k and x << k, for 0 <= k below the width.
RECURSIVE shr_from(_, _, _, _)
shr_from(x, q, r, i) ==
    IF i > Len(x) THEN <<>>
    ELSE <<(limb_at(x, i + q) \div 2^r)
             + (limb_at(x, i + q + 1) % 2^r) * 2^(16 - r)>>
         \o shr_from(x, q, r, i + 1)
shr(x, k) == shr_from(x, k \div 16, k % 16, 1)
RECURSIVE shl_from(_, _, _, _)
shl_from(x, q, r, i) ==
    IF i > Len(x) THEN <<>>
    ELSE <<(limb_at(x, i - q) % 2^(16 - r)) * 2^r
             + (limb_at(x, i - q - 1) \div 2^(16 - r))>>
         \o shl_from(x, q, r, i + 1)
shl(x, k) == shl_from(x, k \div 16, k % 16, 1)

\* x.rotate_left(k), x.rotate_right(k) of a u32.
rotated(y, r) ==
    <<((y[1] * 2^r) % Limb) + (y[2] \div 2^(16 - r)),
      ((y[2] * 2^r) % Limb) + (y[1] \div 2^(16 - r))>>
rotate_left(x, k) ==
    rotated(IF k % 32 < 16 THEN x ELSE <<x[2], x[1]>>, k % 16)
rotate_right(x, k) == rotate_left(x, 32 - (k % 32))

\* x < y and x <= y, from the most significant limb down.
RECURSIVE less_from(_, _, _, _)
less_from(x, y, i, eq) ==
    IF i = 0 THEN eq
    ELSE IF x[i] # y[i] THEN x[i] < y[i]
    ELSE less_from(x, y, i - 1, eq)
lt(x, y) == less_from(x, y, Len(x), FALSE)
le(x, y) == less_from(x, y, Len(x), TRUE)

\* The number of leading zero bits of a u64.
RECURSIVE bit_length(_)
bit_length(n) == IF n = 0 THEN 0 ELSE 1 + bit_length(n \div 2)
RECURSIVE leading_from(_, _)
leading_from(x, i) ==
    IF i = 0 THEN 0
    ELSE IF x[i] = 0 THEN 16 + leading_from(x, i - 1)
    ELSE 16 - bit_length(x[i])
leading_zeros(x) == leading_from(x, Len(x))

\* A small number as a u64 (value as u64).
as_u64(n) == <<n % Limb, n \div Limb, 0, 0>>
\* hi as the type of the range, for a value that fits a model integer.
as_int(x) == x[1] + Limb * x[2]

\* The bytes of a word, and the word of bytes.
RECURSIVE to_le_bytes(_)
to_le_bytes(x) ==
    IF x = <<>> THEN <<>>
    ELSE <<Head(x) % Byte, Head(x) \div Byte>> \o to_le_bytes(Tail(x))
RECURSIVE from_le_bytes(_)
from_le_bytes(b) ==
    IF b = <<>> THEN <<>>
    ELSE <<b[1] + Byte * b[2]>> \o from_le_bytes(Tail(Tail(b)))

\* The widening product of two u64: sixteen bytes, by long multiplication.
RECURSIVE column(_, _, _, _)
column(a, b, k, i) ==
    IF i > Len(a) \/ i > k THEN 0
    ELSE (IF k - i + 1 <= Len(b) THEN a[i] * b[k - i + 1] ELSE 0)
         + column(a, b, k, i + 1)
RECURSIVE product_from(_, _, _, _)
column_sum(a, b, k, t) == <<t % Byte>> \o product_from(a, b, k + 1, t \div Byte)
product_from(a, b, k, carry) ==
    IF k > Len(a) + Len(b) THEN <<>>
    ELSE column_sum(a, b, k, carry + column(a, b, k, 1))
\* v.wmul(range): (hi, lo) of the 128-bit product.
halves(p) == [hi |-> SubSeq(p, 5, 8), lo |-> SubSeq(p, 1, 4)]
wmul(x, y) ==
    halves(from_le_bytes(product_from(to_le_bytes(x), to_le_bytes(y), 1, 0)))
wrapping_mul(x, y) == wmul(x, y).lo

\* ------------------------------------------------ rand 0.8: StdRng
\* SeedableRng::seed_from_u64 fills the 32-byte seed from a PCG32 stream.
PcgMul == <<32557, 19605, 62509, 22609>>    \* 6364136223846793005
PcgInc == <<6131, 28606, 21732, 41334>>    \* 11634580027462260723

pcg32_step(state) == wrapping_add(wrapping_mul(state, PcgMul), PcgInc)
pcg32_out(state) ==
    rotate_right(SubSeq(shr(xor(shr(state, 18), state), 27), 1, 2),
                 shr(state, 59)[1])
RECURSIVE pcg32_fill(_, _)
pcg32_next(s1, k) == <<pcg32_out(s1)>> \o pcg32_fill(s1, k - 1)
pcg32_fill(state, k) ==
    IF k = 0 THEN <<>> ELSE pcg32_next(pcg32_step(state), k)

\* ChaCha with 12 rounds: the quarter round, the double round, one block.
\* x += y; z ^= x; z <<<= k, on the words x, y and z of the state, sum being
\* the new x.
mixed(s, x, z, k, sum) ==
    [s EXCEPT ![x] = sum, ![z] = rotate_left(xor(s[z], sum), k)]
mix(s, x, y, z, k) == mixed(s, x, z, k, wrapping_add(s[x], s[y]))
quarter_round(s, a, b, c, d) ==
    mix(mix(mix(mix(s, a, b, d, 16), c, d, b, 12), a, b, d, 8), c, d, b, 7)

\* A double round is the four columns, then the four diagonals.
QuarterRounds ==
    <<<<1, 5, 9, 13>>, <<2, 6, 10, 14>>, <<3, 7, 11, 15>>, <<4, 8, 12, 16>>,
      <<1, 6, 11, 16>>, <<2, 7, 12, 13>>, <<3, 8, 9, 14>>, <<4, 5, 10, 15>>>>

\* The quarter rounds from the i-th on, of n.  (The test of s has TLC work
\* out one quarter round before it begins the next.)
round_of(s, q) == quarter_round(s, q[1], q[2], q[3], q[4])
RECURSIVE rounds(_, _, _)
rounds(s, i, n) ==
    IF i > n \/ s = <<>> THEN s
    ELSE rounds(round_of(s, QuarterRounds[((i - 1) % 8) + 1]), i + 1, n)

ChaChaConst == <<<<30821, 24944>>, <<25710, 13088>>, <<11570, 31074>>, <<25972, 27424>>>>
ChaChaDoubleRounds == 6

RECURSIVE add_words(_, _)
add_words(s, t) ==
    IF s = <<>> THEN <<>>
    ELSE <<wrapping_add(Head(s), Head(t))>> \o add_words(Tail(s), Tail(t))

\* The block of an initial state: the rounds, then the state added word by
\* word.
block_of(init) == add_words(rounds(init, 1, 8 * ChaChaDoubleRounds), init)
chacha_block(key, counter) ==
    block_of(ChaChaConst \o key
               \o <<<<counter % Limb, counter \div Limb>>, <<0, 0>>, <<0, 0>>, <<0, 0>>>>)

key_of(s) == pcg32_fill(as_u64(s), 8)
RECURSIVE pairs(_)
pairs(b) ==
    IF b = <<>> THEN <<>>
    ELSE <<b[1] \o b[2]>> \o pairs(Tail(Tail(b)))
block_words(s, counter) == pairs(chacha_block(key_of(s), counter))

\* The generators the runs seed, and the words of their first two blocks,
\* worked out once.
TabledSeeds == {s + i : s \in Seeds \cup {SmokeSeed}, i \in 0..MaxTasks}
TabledBlocks == 0..1
StdRngWords ==
    [at \in TabledSeeds \X TabledBlocks |-> block_words(at[1], at[2])] @@ <<>>

\* StdRng::seed_from_u64: the generator is kept as its seed and the number of
\* 64-bit words it has produced; the ChaCha key is key_of(seed), the block
\* counter n \div 8 and the index into the block n % 8.
seed_from_u64(s) == [seed |-> s, n |-> 0]

\* BlockRng::next_u64: the next two u32 results of the block, low word first.
words_of(s, counter) ==
    IF s \in TabledSeeds /\ counter \in TabledBlocks
    THEN StdRngWords[<<s, counter>>]
    ELSE block_words(s, counter)
next_u64(rng) == words_of(rng.seed, rng.n \div 8)[(rng.n % 8) + 1]

\* The generator after one word was taken.
step_rng(rng) == [rng EXCEPT !.n = @ + 1]

\* rng.gen_bool(0.2): Bernoulli::new(0.2) keeps p_int = (0.2 * 2^64) as u64,
\* which is 0x3333333333333400, and sample is next_u64() < p_int.
BernoulliP == <<13312, 13107, 13107, 13107>>
gen_bool(rng) == lt(next_u64(rng), BernoulliP)

\* rng.gen_range(0..n) for n > 0, UniformInt::sample_single_inclusive: zone is
\* (range << range.leading_zeros()) - 1, and the loop takes words until the
\* low half of v.wmul(range) is within the zone; the high half is the value.
RECURSIVE sample_loop(_, _, _)
accept(rng, range, zone, m) ==
    IF le(m.lo, zone) THEN [value |-> as_int(m.hi), rng |-> step_rng(rng)]
    ELSE sample_loop(step_rng(rng), range, zone)
sample_loop(rng, range, zone) ==
    accept(rng, range, zone, wmul(next_u64(rng), range))
zone_of(range) == wrapping_dec(shl(range, leading_zeros(range)))
sample_in(rng, range) == sample_loop(rng, range, zone_of(range))
sample_range(rng, n) == sample_in(rng, as_u64(n))

\* Variant: every task's generator is seeded with the strategy's seed.
task_seed_shared(s, i) == s

\* let seed = self.seed + (i as u64), for the enumerate index i.
task_seed(s, i) == s + i

\* The range the index is drawn from: the hot set or all the streams.
pick_range(w, hot) == IF hot THEN hot_set(w) ELSE w.unique_streams

\* let stream_idx = if use_heavy_tail && rng.gen_bool(0.2) {
\* rng.gen_range(0..hot_set) } else { rng.gen_range(0..unique_streams) }: the
\* coin is tossed only for a heavy-tail distribution; an empty range panics.
Picked(hot, picked) ==
    [hot |-> hot, panics |-> FALSE, stream_idx |-> picked.value,
     rng |-> picked.rng]
pick(hot, rng1, n) ==
    IF gen_range(n) = {}
    THEN [hot |-> hot, panics |-> TRUE, stream_idx |-> 0, rng |-> rng1]
    ELSE Picked(hot, sample_range(rng1, n))
pick_stream(w, rng1, hot) == pick(hot, rng1, pick_range(w, hot))
tossed(w, rng, heavy) ==
    pick_stream(w, IF heavy THEN step_rng(rng) ELSE rng, heavy /\ gen_bool(rng))
draw(w, rng) == tossed(w, rng, use_heavy_tail(w))

\* The decimal digits of a number, as Display writes them.
RECURSIVE decimal(_)
decimal(n) == IF n < 10 THEN <<n>> ELSE decimal(n \div 10) \o <<n % 10>>

\* format!("stream-{}", stream_idx)
stream_name(stream_idx) == [prefix |-> "stream-", digits |-> decimal(stream_idx)]

NoStream == [prefix |-> "", digits |-> <<>>]

\* No run directory yet.
NoDir == [adapter |-> <<>>, parts |-> <<>>]

\* Variant: the writers suffix alone whenever there are writers.
run_dir_name_writers_first(adapter_name, w) ==
    [adapter |-> adapter_name,
     parts |->
        IF w.writers > 0
        THEN <<[tag |-> "_w", n |-> decimal(w.writers)]>>
        ELSE IF w.readers > 0
        THEN <<[tag |-> "_r", n |-> decimal(w.readers)]>>
        ELSE <<[tag |-> "_w", n |-> decimal(w.writers)],
               [tag |-> "_r", n |-> decimal(w.readers)]>>]

\* let run_dir_name = if readers > 0 && writers == 0 { "{}_r{}" } else if
\* writers > 0 && readers == 0 { "{}_w{}" } else { "{}_w{}_r{}" }: the
\* adapter name and the tagged numbers that follow it.
run_dir_name(adapter_name, w) ==
    [adapter |-> adapter_name,
     parts |->
        IF w.readers > 0 /\ w.writers = 0
        THEN <<[tag |-> "_r", n |-> decimal(w.readers)]>>
        ELSE IF w.writers > 0 /\ w.readers = 0
        THEN <<[tag |-> "_w", n |-> decimal(w.writers)]>>
        ELSE <<[tag |-> "_w", n |-> decimal(w.writers)],
               [tag |-> "_r", n |-> decimal(w.readers)]>>]

\* The run command before it starts: nothing created, nothing written.
NoCli == [pc |-> "none", store |-> <<>>, workflow |-> <<>>, adapter_name |-> <<>>,
          workload_dir |-> FALSE, run_dir |-> NoDir, run |-> "none",
          samples |-> 0, written |-> {},
          exit |-> "none"]

\* RawSample as pushed by a task: t_ms is read when the push happens.
RawSample(t_ms, op, dur, ok) ==
    [t_ms |-> t_ms, op |-> op, latency_us |-> as_micros(dur), ok |-> ok]

\* Variant: counts the distinct latency values of the histogram, not its entries.
written_distinct(rec) == Cardinality(BagToSet(rec))

\* rec.hist.len(): what the writers' join loop counts for one task.
written_of(rec) == hist_len(rec)

\* Variant: the running total is overwritten by each joined task's count.
add_written_overwrite(total, rec) == written_of(rec)

\* events_written += rec.hist.len()
add_written(total, rec) == total + written_of(rec)

\* events_read += reader_events_read
add_read(total, reader_events_read) == total + reader_events_read

\* ---------------------------------------------------------------- numbers
\* A number beyond the integers of the model is a sequence of limbs to the
\* base 10000, the least significant first, and zero is the empty one.

BigBase == 10000

\* The element of a set of one.  What a set of one binds is worked out once,
\* however often it is used.
the(S) == CHOOSE v \in S : TRUE

\* a without its leading limbs of zero.
top_limb(a) == CHOOSE n \in 0..Len(a) : /\ n = 0 \/ a[n] # 0
                                        /\ \A k \in (n + 1)..Len(a) : a[k] = 0
big_trim(a) == the({SubSeq(x, 1, top_limb(x)) : x \in {a}})

big_limb(a, i) == IF i <= Len(a) THEN a[i] ELSE 0

\* The sum of two rows of limbs of which each pair has a sum below twice the
\* base: a limb gets a carry when a limb below it overflows and the limbs
\* between pass the carry on.
carried_rows(a, b) ==
    LET n == IF Len(a) > Len(b) THEN Len(a) ELSE Len(b)
        sum(i) == big_limb(a, i) + big_limb(b, i)
        carry(i) == \E j \in 1..(i - 1) :
                       /\ sum(j) >= BigBase
                       /\ \A k \in (j + 1)..(i - 1) : sum(k) >= BigBase - 1
    IN [i \in 1..n |-> (sum(i) + IF carry(i) THEN 1 ELSE 0) % BigBase]
          \o (IF carry(n + 1) THEN <<1>> ELSE <<>>)
carried(a, b) == the({carried_rows(x, y) : x \in {a}, y \in {b}})

big_add(a, b) ==
    IF a = <<>> THEN b ELSE IF b = <<>> THEN a ELSE big_trim(carried(a, b))

\* a - b, for a >= b: a limb lends when a limb below it falls short and the
\* limbs between have nothing to spare.
lent_rows(a, b) ==
    LET diff(i) == a[i] - big_limb(b, i)
        borrow(i) == \E j \in 1..(i - 1) :
                        /\ diff(j) < 0
                        /\ \A k \in (j + 1)..(i - 1) : diff(k) <= 0
    IN [i \in 1..Len(a) |->
           (diff(i) - (IF borrow(i) THEN 1 ELSE 0) + BigBase) % BigBase] \o <<>>
big_sub(a, b) ==
    IF b = <<>> THEN a
    ELSE big_trim(the({lent_rows(x, y) : x \in {a}, y \in {b}}))

\* a * k, for k up to the base: the low halves of the products plus their
\* high halves one limb up.
limb_products(a, k) ==
    big_trim(carried([i \in 1..Len(a) |-> (a[i] * k) % BigBase] \o <<>>,
                     <<0>> \o [i \in 1..Len(a) |-> (a[i] * k) \div BigBase]))
big_mul(a, k) ==
    IF a = <<>> \/ k = 0 THEN <<>>
    ELSE the({limb_products(x, k) : x \in {a}})

\* The sum of the values of a function to the numbers from 0 on.
Sum(f) == BagCardinality([x \in DOMAIN f |-> f[x] + 1]) - Cardinality(DOMAIN f)

\* a * b: the column of every limb gets the low halves of its products and
\* the high halves of the products of the column below.
columns(a, b) ==
    LET terms(k) == {i \in 1..Len(a) : k + 1 - i >= 1 /\ k + 1 - i <= Len(b)}
        low(k) == Sum([i \in terms(k) |-> (a[i] * b[k + 1 - i]) % BigBase])
        high(k) == Sum([i \in terms(k) |-> (a[i] * b[k + 1 - i]) \div BigBase])
    IN [k \in 1..(Len(a) + Len(b)) |->
           low(k) + IF k > 1 THEN high(k - 1) ELSE 0] \o <<>>
carried_columns(total) ==
    big_trim(carried([k \in DOMAIN total |-> total[k] % BigBase] \o <<>>,
                     <<0>> \o [k \in DOMAIN total |-> total[k] \div BigBase]))
big_times(a, b) ==
    IF a = <<>> \/ b = <<>> THEN <<>>
    ELSE the({carried_columns(total) :
                total \in {columns(x, y) : x \in {a}, y \in {b}}})

big_square(a) == big_times(a, a)

\* k^n, by squaring.
RECURSIVE big_pow(_, _)
big_pow(k, n) ==
    IF n = 0 THEN <<1>>
    ELSE big_mul(big_square(big_pow(k, n \div 2)), IF n % 2 = 0 THEN 1 ELSE k)

\* a * k^n
big_scale(a, k, n) == IF n <= 0 \/ a = <<>> THEN a ELSE big_times(a, big_pow(k, n))

big_lt(a, b) ==
    IF Len(a) # Len(b) THEN Len(a) < Len(b)
    ELSE \E i \in 1..Len(a) : /\ a[i] < b[i]
                              /\ \A k \in (i + 1)..Len(a) : a[k] = b[k]

big_le(a, b) == ~big_lt(b, a)

big_even(a) == a = <<>> \/ a[1] % 2 = 0

\* The number written by decimal digits, the most significant first: four
\* digits make a limb.
big_of_digits(d) ==
    LET digit(p) == IF p >= 1 THEN d[p] ELSE 0
        limb(i) == LET p == Len(d) - 4 * i
                   IN ((digit(p + 1) * 10 + digit(p + 2)) * 10 + digit(p + 3)) * 10
                         + digit(p + 4)
    IN big_trim([i \in 1..((Len(d) + 3) \div 4) |-> limb(i)] \o <<>>)

\* An f64 above 0 is q * 2^e, with q below 2^53 and e from -1074 to 971, and
\* q at least 2^52 unless e is -1074; zero has q = 0, and `inf` tells a value
\* beyond the greatest f64.
F64Bits == 53
F64MinExp == -1074
F64MaxExp == 971

One == <<1>>
\* 2^52 = 4503599627370496 and 2^53 = 9007199254740992
Two52 == <<496, 2737, 5996, 4503>>
Two53 == <<992, 5474, 1992, 9007>>

\* Whether 2^l <= n / m.
at_least(n, m, l) ==
    IF l >= 0 THEN big_le(big_scale(m, 2, l), n)
    ELSE big_le(m, big_scale(n, 2, 0 - l))

greatest(S) == the({(CHOOSE l \in T : \A k \in T : k <= l) : T \in {S}})

\* The l with 2^l <= n / m < 2^(l + 1), for n and m above 0.  The numbers of
\* limbs tell it within a few, the binary logarithm of the base being between
\* 13.287 and 13.288.
floor_log2(n, m) ==
    LET d == Len(n) - Len(m)
        least == ((IF d >= 1 THEN 13287 ELSE 13288) * (d - 1)) \div 1000
        most == (((IF d >= -1 THEN 13288 ELSE 13287) * (d + 1)) \div 1000) + 1
    IN greatest({l \in least..most : at_least(n, m, l)})

\* The quotient of at.r by m, below 10^(p + 1), and the remainder: the long
\* division, one decimal digit at a time.  at.q are the digits so far.
QuotientDigits == 16

taken(at, unit, d) ==
    [q |-> Append(at.q, d), r |-> big_sub(at.r, big_mul(unit, d))]

\* The next digit: how many times the unit goes into what is left.
digit_of(at, unit) ==
    taken(at, unit, CHOOSE d \in 0..9 : /\ big_le(big_mul(unit, d), at.r)
                                        /\ big_lt(at.r, big_mul(unit, d + 1)))

RECURSIVE divide(_, _, _)
divide(at, m, p) ==
    IF p < 0 THEN at
    ELSE divide(digit_of(at, big_scale(m, 10, p)), m, p - 1)

f64_zero == [q |-> <<>>, e |-> 0, inf |-> FALSE]

\* A significand that rounding took to 2^53 is 2^52 at the next exponent.
normal(x, q) ==
    IF q = Two53 THEN [q |-> Two52, e |-> x + 1, inf |-> x + 1 > F64MaxExp]
    ELSE [q |-> q, e |-> x, inf |-> x > F64MaxExp]

\* Ties go to the even significand.
rounded(x, den, qr) ==
    LET floor == big_of_digits(qr.q)
        twice == big_mul(qr.r, 2)
        round_up == \/ big_lt(den, twice)
                    \/ twice = den /\ ~big_even(floor)
    IN normal(x, IF round_up THEN big_add(floor, One) ELSE floor)

\* n / m in units of 2^x, rounded.
round_at(x, num, den) ==
    rounded(x, den, divide([q |-> <<>>, r |-> num], den, QuotientDigits - 1))

\* The exponent of a value between 2^l and 2^(l + 1).
exponent_of(l) ==
    IF l - (F64Bits - 1) < F64MinExp THEN F64MinExp ELSE l - (F64Bits - 1)

scaled_to(n, m, x) == round_at(x, big_scale(n, 2, 0 - x), big_scale(m, 2, x))

\* The f64 nearest to n / m, ties to the even significand: the rounding of
\* every f64 operation.
nearest_f64(n, m) ==
    IF n = <<>> THEN f64_zero
    ELSE scaled_to(n, m, exponent_of(floor_log2(n, m)))

\* ------------------------------------------------------------- f64 and u64
\* An f64 of the program is NaN, an infinity, or q * 2^e with its sign: q is
\* below 2^53 and at least 2^52 unless e is -1074, and zero has q = 0 at
\* e = 0.  A u64 is a row of limbs.

Finite(neg, q, e) == [kind |-> "finite", neg |-> neg, q |-> q, e |-> e]
Zero(neg) == Finite(neg, <<>>, 0)
Infinite(neg) == [kind |-> "inf", neg |-> neg, q |-> <<>>, e |-> 0]
f64_NAN == [kind |-> "nan", neg |-> FALSE, q |-> <<>>, e |-> 0]

is_zero(f) == f.kind = "finite" /\ f.q = <<>>

\* u64::MAX = 18446744073709551615
u64_MAX == <<1615, 955, 737, 6744, 1844>>

RECURSIVE big_of_nat(_)
big_of_nat(n) ==
    IF n = 0 THEN <<>> ELSE <<n % BigBase>> \o big_of_nat(n \div BigBase)

\* a \div d and a % d, for a d up to 2^17: the long division from the top
\* limb down, r being what the limbs above i left.
RECURSIVE div_limbs(_, _, _, _)
after_limb(rest, limb) == [q |-> Append(rest.q, limb), r |-> rest.r]
div_limb(a, d, i, cur) ==
    the({after_limb(rest, cur \div d) :
           rest \in {div_limbs(a, d, i - 1, cur % d)}})
div_limbs(a, d, i, r) ==
    IF i = 0 THEN [q |-> <<>>, r |-> r]
    ELSE the({div_limb(a, d, i, cur) : cur \in {r * BigBase + a[i]}})
trimmed(qr) == [q |-> big_trim(qr.q), r |-> qr.r]
big_divmod(a, d) ==
    the({trimmed(qr) : qr \in {div_limbs(x, d, Len(x), 0) : x \in {a}}})

\* The powers of two of the sums and quotients of the samples.
TabledPowers == 0..128
Pow2 == [l \in TabledPowers |-> big_pow(2, l)] @@ <<>>
pow2(l) == IF l \in TabledPowers THEN Pow2[l] ELSE big_pow(2, l)

\* The number of bits of n above 0: the number of limbs tells it within a
\* few.
bits_among(n) ==
    {l \in ((13287 * (Len(n) - 1)) \div 1000)
              ..(((13288 * Len(n)) \div 1000) + 1) : big_le(pow2(l), n)}
big_bits(n) == 1 + the({greatest(bits_among(x)) : x \in {n}})

\* n \div 2^s, and whether anything was cut off: sixteen bits at a time.
ShiftBits == 16
RECURSIVE shift_right(_, _, _)
shifted(qr, s, sticky) == shift_right(qr.q, s, sticky \/ qr.r # 0)
shift_by(n, s, sticky, by) ==
    the({shifted(qr, s - by, sticky) : qr \in {big_divmod(n, 2 ^ by)}})
shift_right(n, s, sticky) ==
    IF s = 0 \/ n = <<>> THEN [q |-> n, sticky |-> sticky]
    ELSE shift_by(n, s, sticky, IF s < ShiftBits THEN s ELSE ShiftBits)

\* The f64 of a significand at an exponent: beyond the greatest exponent it
\* is an infinity, and a significand that rounding took to 2^53 is 2^52 at
\* the next exponent.
finite_or_inf(neg, q, t) ==
    IF q = <<>> THEN Zero(neg)
    ELSE IF t > F64MaxExp THEN Infinite(neg)
    ELSE Finite(neg, q, t)
normal_f64(neg, q, t) ==
    IF q = Two53 THEN finite_or_inf(neg, Two52, t + 1)
    ELSE finite_or_inf(neg, q, t)

\* Ties go to the even significand: half is the bit below the significand.
round_up(qr, sticky) ==
    IF qr.r = 1 /\ (sticky \/ ~big_even(qr.q)) THEN big_add(qr.q, One) ELSE qr.q
round_half(neg, qr, sticky, t) ==
    the({normal_f64(neg, q, t) : q \in {round_up(qr, sticky)}})
round_shifted(neg, sh, t) ==
    the({round_half(neg, qr, sh.sticky, t) : qr \in {big_divmod(sh.q, 2)}})

\* n * 2^x in units of 2^t.
round_at_exp(neg, n, x, sticky, t) ==
    IF t <= x
    THEN the({finite_or_inf(neg, q, t) : q \in {big_times(n, pow2(x - t))}})
    ELSE the({round_shifted(neg, sh, t) :
                sh \in {shift_right(n, t - x - 1, sticky)}})

\* The exponent of a value of l bits in units of 2^x.
unit_exponent(x, l) ==
    IF x + l - F64Bits < F64MinExp THEN F64MinExp ELSE x + l - F64Bits

\* The f64 nearest to n * 2^x, or to a value between that and (n + 1) * 2^x
\* when `sticky`, which takes an n of 55 bits or more: the rounding of every
\* f64 operation.
nearest_at(neg, n, x, sticky) ==
    the({round_at_exp(neg, n, x, sticky, t) :
           t \in {unit_exponent(x, big_bits(n))}})
f64_of(neg, n, x, sticky) ==
    the({IF m = <<>> THEN Zero(neg) ELSE nearest_at(neg, m, x, sticky) :
           m \in {n}})

\* n / 10^k * 2^x, rounded: four powers of ten are a limb, and what the
\* limbs left out hold is cut off.
cut_limbs(n, limbs) ==
    [q |-> SubSeq(n, limbs + 1, Len(n)),
     sticky |-> \E i \in 1..limbs : i <= Len(n) /\ n[i] # 0]
cut_digits(neg, qr, x, sticky) == f64_of(neg, qr.q, x, sticky \/ qr.r # 0)
cut_rest(neg, cut, k, x) ==
    cut_digits(neg, big_divmod(cut.q, 10 ^ k), x, cut.sticky)
f64_over_pow10(neg, n, k, x) ==
    cut_rest(neg, cut_limbs(n, k \div 4), k % 4, x)

\* The f64 nearest to the decimal d * 10^x, d above 0: a negative power of
\* ten divides d times a power of two great enough for the quotient to have
\* 64 bits.  Numbers of more limbs than FastLimbs are left to the division
\* of nearest_f64.
QuotientBits == 64
FastLimbs == 24
signed(neg, f) ==
    IF f.inf THEN Infinite(neg) ELSE finite_or_inf(neg, f.q, f.e)
decimal_to_f64(neg, d, x) ==
    IF Len(d) + (IF x < 0 THEN 0 - x ELSE x) > FastLimbs
    THEN signed(neg, nearest_f64(big_scale(d, 10, x), big_scale(One, 10, 0 - x)))
    ELSE IF x >= 0 THEN f64_of(neg, big_scale(d, 10, x), 0, FALSE)
    ELSE f64_over_pow10(neg, big_times(d, pow2(QuotientBits - 4 * x)), 0 - x,
                        4 * x - QuotientBits)

\* a * 2^k: exact, but for the infinity beyond the greatest f64 and the
\* rounding below the least normal one.
f64_times_pow2(a, k) ==
    IF a.kind # "finite" THEN a ELSE f64_of(a.neg, a.q, a.e + k, FALSE)

\* |a| < |b| of two finite f64: the exponents tell, and the significands at
\* one exponent.
magnitude_lt(a, b) ==
    IF a.q = <<>> \/ b.q = <<>> THEN a.q = <<>> /\ b.q # <<>>
    ELSE IF a.e # b.e THEN a.e < b.e
    ELSE big_lt(a.q, b.q)

\* a < b of two f64, which NaN is never part of; the two zeros are equal.
f64_lt(a, b) ==
    IF a.kind = "nan" \/ b.kind = "nan" THEN FALSE
    ELSE IF is_zero(a) /\ is_zero(b) THEN FALSE
    ELSE IF a.neg # b.neg THEN a.neg
    ELSE IF a.kind = "inf" \/ b.kind = "inf"
    THEN IF a.neg THEN a.kind = "inf" /\ b.kind # "inf"
         ELSE b.kind = "inf" /\ a.kind # "inf"
    ELSE IF a.neg THEN magnitude_lt(b, a) ELSE magnitude_lt(a, b)

\* f64::max: the other one when one is NaN.
f64_max(a, b) ==
    IF a.kind = "nan" THEN b
    ELSE IF b.kind = "nan" THEN a
    ELSE IF f64_lt(a, b) THEN b ELSE a

\* The sum of two finite f64 other than zero, from their significands at
\* the lesser exponent x: one more than AlignBits below the other changes
\* nothing.
AlignBits == 64
sum_aligned(a, b, qa, qb, x) ==
    IF a.neg = b.neg THEN f64_of(a.neg, big_add(qa, qb), x, FALSE)
    ELSE IF qa = qb THEN Zero(FALSE)
    ELSE IF big_lt(qa, qb) THEN f64_of(b.neg, big_sub(qb, qa), x, FALSE)
    ELSE f64_of(a.neg, big_sub(qa, qb), x, FALSE)
sum_at(a, b, x) ==
    the({sum_aligned(a, b, qa, qb, x) :
           qa \in {big_times(a.q, pow2(a.e - x))},
           qb \in {big_times(b.q, pow2(b.e - x))}})
sum_finite(a, b) ==
    IF a.e > b.e + AlignBits THEN a
    ELSE IF b.e > a.e + AlignBits THEN b
    ELSE sum_at(a, b, IF a.e < b.e THEN a.e ELSE b.e)

\* a + b
f64_add(a, b) ==
    IF a.kind = "nan" \/ b.kind = "nan" THEN f64_NAN
    ELSE IF a.kind = "inf"
    THEN IF b.kind = "inf" /\ a.neg # b.neg THEN f64_NAN ELSE a
    ELSE IF b.kind = "inf" THEN b
    ELSE IF is_zero(a) /\ is_zero(b) THEN Zero(a.neg /\ b.neg)
    ELSE IF is_zero(a) THEN b
    ELSE IF is_zero(b) THEN a
    ELSE sum_finite(a, b)

\* a / n as f64, for a count n from 1 to 2^17, which is an f64 exactly.
div_rounded(a, qr) == f64_of(a.neg, qr.q, a.e - QuotientBits, qr.r # 0)
f64_div_count(a, n) ==
    IF a.kind # "finite" \/ a.q = <<>> THEN a
    ELSE the({div_rounded(a, qr) :
                qr \in {big_divmod(big_times(a.q, pow2(QuotientBits)), n)}})

\* f as u64: the cast truncates, takes NaN and every negative number to 0
\* and saturates, so an infinity becomes u64::MAX.
U64Bits == 64
f64_as_u64(f) ==
    IF f.kind = "nan" \/ f.neg THEN <<>>
    ELSE IF f.kind = "inf" THEN u64_MAX
    ELSE IF f.q = <<>> \/ f.e < 0 - F64Bits THEN <<>>
    ELSE IF f.e < 0 THEN shift_right(f.q, 0 - f.e, FALSE).q
    ELSE IF f.e > U64Bits - F64Bits THEN u64_MAX
    ELSE big_times(f.q, pow2(f.e))

\* -------------------------------------------------------- container_stats
\* Text is a sequence of characters.

\* char::is_ascii_digit and the digit's value: "0" is 48.
IsDigit(c) == c >= 48 /\ c <= 57

digit_value(c) == c - 48

RECURSIVE digits_value(_)
digits_value(t) ==
    IF t = <<>> THEN 0
    ELSE digits_value(SubSeq(t, 1, Len(t) - 1)) * 10 + digit_value(t[Len(t)])

\* char::is_whitespace: the characters of the Unicode property White_Space.
WhiteSpace ==
    {32, 9, 10, 12, 13, 11, 133, 160, 5760,
     8192, 8193, 8194, 8195, 8196, 8197, 8198,
     8199, 8200, 8201, 8202, 8232, 8233, 8239,
     8287, 12288}

\* str::trim: the text without its leading and trailing white space.
RECURSIVE trim(_)
trim(t) ==
    IF t # <<>> /\ Head(t) \in WhiteSpace THEN trim(Tail(t))
    ELSE IF t # <<>> /\ t[Len(t)] \in WhiteSpace
    THEN trim(SubSeq(t, 1, Len(t) - 1))
    ELSE t

\* str::ends_with
ends_with(t, suffix) ==
    /\ Len(t) >= Len(suffix)
    /\ SubSeq(t, Len(t) - Len(suffix) + 1, Len(t)) = suffix

\* What <f64 as FromStr>::from_str gives: the f64, or an error.
Parsed_f64(f) == [ok |-> TRUE, f |-> f]
ParseFloatError == [ok |-> FALSE, f |-> f64_NAN]

\* The least of a set of positions, or the one given when there is none.
first_of(at, otherwise) ==
    IF at = {} THEN otherwise ELSE CHOOSE i \in at : \A j \in at : i <= j

all_digits(t) == \A i \in 1..Len(t) : IsDigit(t[i])

\* The text without its leading zeros.
RECURSIVE significant(_)
significant(t) ==
    IF t # <<>> /\ Head(t) = 48 THEN significant(Tail(t)) ELSE t

digit_values(t) == [i \in 1..Len(t) |-> digit_value(t[i])]

\* str::to_ascii_lowercase
to_ascii_lowercase(s) == [i \in 1..Len(s) |-> ascii_lower(s[i])]

named_f64(neg, name) ==
    IF name \in {<<105, 110, 102>>, <<105, 110, 102, 105, 110, 105, 116, 121>>}
    THEN Parsed_f64(Infinite(neg))
    ELSE IF name = <<110, 97, 110>> THEN Parsed_f64(f64_NAN)
    ELSE ParseFloatError

\* The exponent written, within ExponentCap: every decimal beyond 10^310 is
\* an infinity and every one below 10^-325 a zero, whatever its digits.
ExponentDigits == 6
ExponentCap == 1000000
MaxDecimal == 310
MinDecimal == -325
capped(digits) ==
    IF Len(digits) > ExponentDigits THEN ExponentCap
    ELSE digits_value(digits)
exponent_value(has_e, e_neg, e_digits) ==
    IF ~has_e THEN 0
    ELSE IF e_neg THEN 0 - capped(significant(e_digits))
    ELSE capped(significant(e_digits))

\* The f64 of the digits m, the first of them not 0, times 10^x.
digits_f64(neg, m, x) ==
    IF m = <<>> THEN Zero(neg)
    ELSE IF Len(m) + x > MaxDecimal THEN Infinite(neg)
    ELSE IF Len(m) + x < MinDecimal THEN Zero(neg)
    ELSE decimal_to_f64(neg, big_of_digits(digit_values(m)), x)

\* The digits of the mantissa, the point after `point` of them, times 10^e.
scaled(neg, m, point, e) ==
    digits_f64(neg, significant(m), e - (Len(m) - point))

\* <f64 as FromStr>::from_str: an optional sign, then inf, infinity or nan in
\* any case, or a decimal number: digits with at most one point among them,
\* one digit at least, and possibly an exponent: e or E, an optional sign, one
\* digit at least.  Nothing else is accepted, white space included.  The
\* decimal number of the whole and fractional digits of the mantissa is
\* rounded to the nearest f64.
parts_f64(neg, body, mantissa, whole, frac, has_e, e_neg, e_digits) ==
    IF /\ \A i \in 1..Len(mantissa) :
             IsDigit(mantissa[i]) \/ mantissa[i] = 46
       /\ Cardinality({i \in 1..Len(mantissa) : mantissa[i] = 46}) <= 1
       /\ Len(whole) + Len(frac) >= 1
       /\ has_e => e_digits # <<>> /\ all_digits(e_digits)
    THEN Parsed_f64(scaled(neg, whole \o frac, Len(whole),
                           exponent_value(has_e, e_neg, e_digits)))
    ELSE named_f64(neg, to_ascii_lowercase(body))

\* The mantissa with its first point at `point`.
pointed_f64(neg, body, mantissa, point, has_e, e_neg, e_digits) ==
    parts_f64(neg, body, mantissa, SubSeq(mantissa, 1, point - 1),
              SubSeq(mantissa, point + 1, Len(mantissa)), has_e, e_neg,
              e_digits)

\* The mantissa and the text after the first e or E.
decimal_f64(neg, body, mantissa, exponent, has_e) ==
    pointed_f64(neg, body, mantissa,
                first_of({i \in 1..Len(mantissa) : mantissa[i] = 46},
                         Len(mantissa) + 1),
                has_e, exponent # <<>> /\ Head(exponent) = 45,
                IF exponent # <<>> /\ Head(exponent) \in {43, 45}
                THEN Tail(exponent) ELSE exponent)

\* The text after the sign, its first e or E at e_at.
split_f64(neg, body, e_at) ==
    decimal_f64(neg, body, SubSeq(body, 1, e_at - 1),
                SubSeq(body, e_at + 1, Len(body)), e_at <= Len(body))

unsigned_f64(neg, body) ==
    split_f64(neg, body,
              first_of({i \in 1..Len(body) : body[i] \in {101, 69}},
                       Len(body) + 1))

parse_f64(t) ==
    unsigned_f64(t # <<>> /\ Head(t) = 45,
                 IF t # <<>> /\ Head(t) \in {43, 45} THEN Tail(t) ELSE t)

GiB == <<71, 105, 66>>  \* "GiB"
MiB == <<77, 105, 66>>  \* "MiB"
KiB == <<75, 105, 66>>  \* "KiB"
B == <<66>>  \* "B"

NoUnit == <<>>

\* Variant: the one-letter suffix is tested before the three-letter ones.
unit_of_b_first(t) ==
    IF ends_with(t, B) THEN B
    ELSE IF ends_with(t, GiB) THEN GiB
    ELSE IF ends_with(t, MiB) THEN MiB
    ELSE IF ends_with(t, KiB) THEN KiB
    ELSE NoUnit

\* The if / else if chain of parse_memory_size: the unit the text ends with.
unit_of(t) ==
    IF ends_with(t, GiB) THEN GiB
    ELSE IF ends_with(t, MiB) THEN MiB
    ELSE IF ends_with(t, KiB) THEN KiB
    ELSE IF ends_with(t, B) THEN B
    ELSE NoUnit

\* The number of factors of 1024 of a unit.
factors_of(unit) ==
    IF unit = GiB THEN 3 ELSE IF unit = MiB THEN 2 ELSE IF unit = KiB THEN 1
    ELSE 0

ParseErr == [ok |-> FALSE, v |-> <<>>]

\* (num * 1024.0 * ..) as u64, for k factors of 1024 = 2^10.
KibiBits == 10
as_u64_times_1024(num, k) == f64_as_u64(f64_times_pow2(num, KibiBits * k))

\* parse_memory_size: Ok(bytes), or an error for an unknown unit or a number
\* that does not parse.
bytes_of(num, k) ==
    IF ~num.ok THEN ParseErr
    ELSE [ok |-> TRUE, v |-> as_u64_times_1024(num.f, k)]
with_unit(t, unit) ==
    IF unit = NoUnit THEN ParseErr
    ELSE bytes_of(parse_f64(SubSeq(t, 1, Len(t) - Len(unit))),
                  factors_of(unit))
trimmed_size(t) == with_unit(t, unit_of(t))
parse_memory_size(s0) == trimmed_size(trim(s0))

\* str::trim_end_matches(c)
RECURSIVE trim_end_matches(_, _)
trim_end_matches(t, c) ==
    IF t # <<>> /\ t[Len(t)] = c
    THEN trim_end_matches(SubSeq(t, 1, Len(t) - 1), c)
    ELSE t

\* split('/').collect()[0]: the text before the first '/', all of it when
\* there is none.
first_part(t) ==
    SubSeq(t, 1, first_of({i \in 1..Len(t) : t[i] = 47}, Len(t) + 1) - 1)

\* What one `docker stats --no-stream --format {{json .}}` gives: the exit
\* status, whether stdout is the JSON of a DockerStats, and its CPUPerc and
\* MemUsage texts.
DockerOutput(success, json, cpu_perc, mem_usage) ==
    [success |-> success, json |-> json, cpu_perc |-> cpu_perc,
     mem_usage |-> mem_usage]

StatsErr == [ok |-> FALSE, cpu_percent |-> Zero(FALSE), memory_bytes |-> <<>>]

\* iter().sum::<f64>(): the samples added one after the other to -0.0.
RECURSIVE f64_sum(_, _)
f64_sum(q, acc) ==
    IF q = <<>> THEN acc
    ELSE the({f64_sum(Tail(q), sum) : sum \in {f64_add(acc, Head(q))}})

\* The mean of the samples: their sum over their number as f64.
f64_mean(q) ==
    the({f64_div_count(sum, Len(q)) : sum \in {f64_sum(q, Zero(TRUE))}})

\* get_container_stats, with its single sample: an error when the command
\* fails or its output is not the JSON expected; else Ok with the mean of the
\* CPU percents parsed, 0.0 when the text does not parse, and the memory
\* bytes parsed last, 0 when the text does not parse.
cpu_str(output) == trim_end_matches(trim(output.cpu_perc), 37)
mem_str(output) == trim(first_part(output.mem_usage))
cpu_pushed(cpu) == IF cpu.ok THEN <<cpu.f>> ELSE <<>>
mem_pushed(mem) == IF mem.ok THEN <<mem.v>> ELSE <<>>
stats_of(cpus, mems) ==
    [ok |-> TRUE,
     cpu_percent |-> IF cpus # <<>> THEN f64_mean(cpus) ELSE Zero(FALSE),
     memory_bytes |-> IF mems # <<>> THEN mems[Len(mems)] ELSE <<>>]
get_container_stats(output) ==
    IF ~output.success \/ ~output.json THEN StatsErr
    ELSE stats_of(cpu_pushed(parse_f64(cpu_str(output))),
                  mem_pushed(parse_memory_size(mem_str(output))))

\* A snapshot that was obtained and parsed: the command succeeded and its
\* JSON, CPU text and memory text all parsed.
obtained_and_parsed(output) ==
    /\ output.success
    /\ output.json
    /\ parse_f64(cpu_str(output)).ok
    /\ parse_memory_size(mem_str(output)).ok

\* A text in front of the unit, and the number it writes when it is one: the
\* digits d (as limbs) times 10^x, with its sign.
Numeral(text, valid, neg, d, x) ==
    [text |-> text, valid |-> valid, neg |-> neg, d |-> d, x |-> x]

NotNumeral(text) == Numeral(text, FALSE, FALSE, <<>>, 0)

\* No call of parse_memory_size.
NoParse == [pc |-> "none", number |-> NotNumeral(<<>>), gap |-> <<>>,
            suffix |-> <<>>, s |-> <<>>, out |-> ParseErr]

\* -------------------------------------------------------------- the tasks

ZeroDuration == [secs |-> 0, nanos |-> 0]

\* The history of a run before any operation: operations issued, returned
\* inside the window, failed (anywhere, and inside the window), the events
\* that reads returned inside and outside the window, and the streams of the
\* appends that succeeded.
NoOps == [issued |-> 0, in_window |-> 0, failed |-> 0, failed_in_window |-> 0,
          events_in_window |-> 0, events_outside |-> 0, appended |-> EmptyBag]

IdleTask == [pc |-> "none", adapter |-> 0, stream_idx |-> 0, t0 |-> 0,
             dt |-> ZeroDuration, ok |-> FALSE,
             rec |-> EmptyBag, total_events_read |-> 0,
             rng |-> seed_from_u64(0), hot |-> FALSE, stream |-> NoStream,
             issued |-> 0]

\* The locals of one iteration go out of scope when the loop body ends.
EndIteration(t) == [t EXCEPT !.pc = "loop", !.stream_idx = 0, !.t0 = 0,
                             !.dt = ZeroDuration, !.ok = FALSE,
                             !.hot = FALSE, !.stream = NoStream]

\* set.spawn: the future starts at the top of its loop with a fresh recorder
\* and its own generator; i is the enumerate index of the task.
SpawnedTask(adapter, i) ==
    [IdleTask EXCEPT !.pc = "loop", !.adapter = adapter,
                     !.rng = seed_from_u64(task_seed(seed, i))]

OpName == IF strategy = "readers" THEN "read" ELSE "append"

Running == phase = "running"

\* The operations of the run that have returned.
completed_ops ==
    done_ops.issued - Cardinality({i \in Tasks : task[i].pc = "op"})

\* The bound on the operations of a run: the tasks of execute begin MaxOps
\* operations in all and those of run_workload RunOps.  A task that is
\* between two operations when they are used up is one that comes to its loop
\* test at end_at or later, and begins none.
ops_bound == IF strategy \in {"runner", "smoke"} THEN RunOps ELSE MaxOps

\* The least time an append of the smoke test's DummyAdapter takes: it sleeps
\* ten microseconds.
DummySleepMicros == 10

\* What adapter.append can return, Ok or Err: the DummyAdapter of the smoke
\* test returns Ok(()) from every append.
AppendOutcomes == IF strategy = "smoke" THEN {TRUE} ELSE BOOLEAN

\* The sub-millisecond parts of the operations of a run: an append of the
\* DummyAdapter that returns within one clock reading slept through its ten
\* microseconds.
Fractions(t0, t1) ==
    IF strategy = "smoke"
    THEN {IF t1 = t0 THEN DummySleepMicros * NanosPerMicro ELSE 0}
    ELSE ElapsedNanos(t0, t1)

\* The draws of the runs' generators within their first two blocks, worked
\* out once.
TabledAt ==
    (StreamConfigs \cup DrawStreamConfigs \cup {SmokeStreams})
       \X TabledSeeds \X (0..15)
TabledDraws ==
    [at \in TabledAt |-> draw(at[1], [seed |-> at[2], n |-> at[3]])] @@ <<>>

\* draw(w, rng), from the table where it has it.
draw_of(w, rng) ==
    IF <<w, rng.seed, rng.n>> \in TabledAt
    THEN TabledDraws[<<w, rng.seed, rng.n>>]
    ELSE draw(w, rng)

\* The draw of task i's next iteration.
next_draw(i) == draw_of(wl.streams, task[i].rng)

\* The k-th draw (k >= 1) of a loop whose generator was seeded with s.
RECURSIVE stream_at(_, _, _)
stream_at(w, rng, k) ==
    IF k = 1 THEN draw_of(w, rng)
    ELSE stream_at(w, draw_of(w, rng).rng, k - 1)

\* A task between its draw and the end of the iteration.
InIteration(i) == task[i].pc \in {"op", "lock", "push"}

\* Variant: a task starts its next operation while the push of the last one
\* still waits for the samples mutex.
TaskBeginBeforePush(i) ==
    /\ Running
    /\ UNCHANGED runvars
    /\ task[i].pc \in {"loop", "lock"}
    /\ clock < end_at
    /\ done_ops.issued < ops_bound
    /\ \E d \in {next_draw(i)} :
          /\ ~d.panics
          /\ task' = [task EXCEPT ![i].pc = "op",
                                  ![i].hot = d.hot,
                                  ![i].stream_idx = d.stream_idx,
                                  ![i].stream = stream_name(d.stream_idx),
                                  ![i].rng = d.rng,
                                  ![i].issued = @ + 1,
                                  ![i].t0 = clock]
    /\ done_ops' = [done_ops EXCEPT !.issued = @ + 1]
    /\ UNCHANGED <<cli, parse, seed, strategy, wl, phase, clock, instants, samples, samples_lock,
                   joined, overall, events_written, events_read, result>>

\* while Instant::now() < end_at { pick the stream, build the request, take t0
\* and issue the operation }.
TaskBegin(i) ==
    /\ Running
    /\ UNCHANGED runvars
    /\ task[i].pc = "loop"
    /\ clock < end_at
    /\ done_ops.issued < ops_bound
    /\ \E d \in {next_draw(i)} :
          /\ ~d.panics
          /\ task' = [task EXCEPT ![i].pc = "op",
                                  ![i].hot = d.hot,
                                  ![i].stream_idx = d.stream_idx,
                                  ![i].stream = stream_name(d.stream_idx),
                                  ![i].rng = d.rng,
                                  ![i].issued = @ + 1,
                                  ![i].t0 = clock]
    /\ done_ops' = [done_ops EXCEPT !.issued = @ + 1]
    /\ UNCHANGED <<cli, parse, seed, strategy, wl, phase, clock, instants, samples, samples_lock,
                   joined, overall, events_written, events_read, result>>

\* The same loop head when rng.gen_range(0..unique_streams) panics: the future
\* ends with a panic.
TaskPanic(i) ==
    /\ Running
    /\ UNCHANGED runvars
    /\ task[i].pc = "loop"
    /\ clock < end_at
    /\ \E d \in {next_draw(i)} :
          /\ d.panics
          /\ task' = [task EXCEPT ![i].pc = "panicked", ![i].rng = d.rng]
    /\ UNCHANGED <<cli, parse, seed, strategy, wl, phase, clock, instants, samples, samples_lock,
                   joined, overall, events_written, events_read, result,
                   done_ops>>

\* Variant: the latency is recorded whatever the instant, and only the push
\* waits on the window test.
AfterOpRecordingAlways(i, ok, count, frac) ==
    LET dt == elapsed(task[i].t0, frac)
        now == clock
        t1 == [task[i] EXCEPT !.dt = dt, !.ok = ok, !.rec = record(@, dt),
                  !.total_events_read = @ + count]
    IN /\ task' = [task EXCEPT ![i] =
                     IF InWindow(now) THEN [t1 EXCEPT !.pc = "lock"]
                     ELSE EndIteration(t1)]
       /\ done_ops' = [done_ops EXCEPT
             !.in_window = IF InWindow(now) THEN @ + 1 ELSE @,
             !.failed = IF ok THEN @ ELSE @ + 1,
             !.failed_in_window = IF ~ok /\ InWindow(now) THEN @ + 1 ELSE @,
             !.events_in_window = IF InWindow(now) THEN @ + count ELSE @,
             !.events_outside = IF InWindow(now) THEN @ ELSE @ + count,
             !.appended = IF ok /\ OpName = "append"
                          THEN @ (+) SetToBag({task[i].stream_idx}) ELSE @]

\* Variant: the window test is made on the instant the operation was started.
AfterOpWindowAtStart(i, ok, count, frac) ==
    LET dt == elapsed(task[i].t0, frac)
        now == task[i].t0
        t1 == [task[i] EXCEPT !.dt = dt, !.ok = ok,
                  !.total_events_read = @ + count]
    IN /\ task' = [task EXCEPT ![i] =
                     IF InWindow(now)
                     THEN [t1 EXCEPT !.pc = "lock", !.rec = record(@, dt)]
                     ELSE EndIteration(t1)]
       /\ done_ops' = [done_ops EXCEPT
             !.in_window = IF InWindow(now) THEN @ + 1 ELSE @,
             !.failed = IF ok THEN @ ELSE @ + 1,
             !.failed_in_window = IF ~ok /\ InWindow(now) THEN @ + 1 ELSE @,
             !.events_in_window = IF InWindow(now) THEN @ + count ELSE @,
             !.events_outside = IF InWindow(now) THEN @ ELSE @ + count,
             !.appended = IF ok /\ OpName = "append"
                          THEN @ (+) SetToBag({task[i].stream_idx}) ELSE @]

\* What both loops do once the operation has returned: dt, now, the window
\* test, the local record, and then the wait for the samples mutex.
AfterOp(i, ok, count, frac) ==
    LET dt == elapsed(task[i].t0, frac)
        now == clock
        t1 == [task[i] EXCEPT !.dt = dt, !.ok = ok,
                  !.total_events_read = @ + count]
    IN /\ task' = [task EXCEPT ![i] =
                     IF InWindow(now)
                     THEN [t1 EXCEPT !.pc = "lock", !.rec = record(@, dt)]
                     ELSE EndIteration(t1)]
       /\ done_ops' = [done_ops EXCEPT
             !.in_window = IF InWindow(now) THEN @ + 1 ELSE @,
             !.failed = IF ok THEN @ ELSE @ + 1,
             !.failed_in_window = IF ~ok /\ InWindow(now) THEN @ + 1 ELSE @,
             !.events_in_window = IF InWindow(now) THEN @ + count ELSE @,
             !.events_outside = IF InWindow(now) THEN @ ELSE @ + count,
             !.appended = IF ok /\ OpName = "append"
                          THEN @ (+) SetToBag({task[i].stream_idx}) ELSE @]

\* adapter.append(evt).await returns, Ok or Err.
AppendReturn(i) ==
    /\ Running
    /\ UNCHANGED runvars
    /\ strategy # "readers"
    /\ task[i].pc = "op"
    /\ \E ok \in AppendOutcomes, frac \in Fractions(task[i].t0, clock) :
          AfterOp(i, ok, 0, frac)
    /\ UNCHANGED <<cli, parse, seed, strategy, wl, phase, clock, instants, samples, samples_lock,
                   joined, overall, events_written, events_read, result>>

\* adapter.read(req).await returns Ok(events), at most limit of them, or Err.
ReadReturn(i) ==
    /\ Running
    /\ UNCHANGED runvars
    /\ strategy = "readers"
    /\ task[i].pc = "op"
    /\ \E frac \in Fractions(task[i].t0, clock) :
          \/ \E count \in {c \in ReadCounts : c <= ReadLimit} :
                AfterOp(i, TRUE, count, frac)
          \/ AfterOp(i, FALSE, 0, frac)
    /\ UNCHANGED <<cli, parse, seed, strategy, wl, phase, clock, instants, samples, samples_lock,
                   joined, overall, events_written, events_read, result>>

\* samples.lock().await completes: the mutex is free and the task takes it.
LockAcquire(i) ==
    /\ Running
    /\ UNCHANGED runvars
    /\ task[i].pc = "lock"
    /\ samples_lock = 0
    /\ samples_lock' = i
    /\ task' = [task EXCEPT ![i].pc = "push"]
    /\ UNCHANGED <<cli, parse, seed, strategy, wl, phase, clock, instants, samples, joined,
                   overall, events_written, events_read, result, done_ops>>

\* Variant: the sample is put in front of the buffer.
PushInFront(i) ==
    /\ Running
    /\ UNCHANGED runvars
    /\ task[i].pc = "push"
    /\ samples_lock = i
    /\ samples' = <<RawSample(clock, OpName, task[i].dt, task[i].ok)>>
                     \o samples
    /\ samples_lock' = 0
    /\ task' = [task EXCEPT ![i] = EndIteration(@)]
    /\ UNCHANGED <<cli, parse, seed, strategy, wl, phase, clock, instants, joined, overall,
                   events_written, events_read, result, done_ops>>

\* s.push(RawSample { t_ms: now_ms(), .. }); the guard drops at the end of the
\* block and the loop starts over.
Push(i) ==
    /\ Running
    /\ UNCHANGED runvars
    /\ task[i].pc = "push"
    /\ samples_lock = i
    /\ samples' = Append(samples,
                     RawSample(clock, OpName, task[i].dt, task[i].ok))
    /\ samples_lock' = 0
    /\ task' = [task EXCEPT ![i] = EndIteration(@)]
    /\ UNCHANGED <<cli, parse, seed, strategy, wl, phase, clock, instants, joined, overall,
                   events_written, events_read, result, done_ops>>

\* How long the `docker stats` command may take: StatsTicks steps of the
\* clock.
StatsMs == StatsTicks * TickMs

\* Time passes, for as long as a task, the sampler's sleep or the sampler's
\* `docker stats` command can use it.  The sampler's thread is woken when its
\* sleep ends: it takes its turn before the clock moves on.  The command
\* returns within StatsMs.
\* The closure handed to spawn_blocking runs on its own thread to the end of
\* its loop, also when run_workload has panicked in the meantime.
Tick ==
    /\ \/ phase \in {"running", "stats"}
       \/ phase = "panicked" /\ sampler.pc \in {"run", "stats"}
    /\ \/ clock < end_at
       \/ sampler.pc = "run" /\ clock < sampler.wake
       \/ sampler.pc = "stats"
    /\ sampler.pc = "run" => clock < sampler.wake
    /\ sampler.pc = "stats" => clock < sampler.since + StatsMs
    /\ clock' = clock + TickMs
    /\ UNCHANGED runvars
    /\ UNCHANGED <<cli, parse, seed, strategy, wl, phase, instants, task, samples, samples_lock,
                   joined, overall, events_written, events_read, result,
                   done_ops>>

\* The loop condition fails and the future returns its recorder (and, for a
\* reader, its count): the task is finished and waits in the JoinSet.
TaskExit(i) ==
    /\ Running
    /\ UNCHANGED runvars
    /\ task[i].pc = "loop"
    /\ clock >= end_at
    /\ task' = [task EXCEPT ![i].pc = "done"]
    /\ UNCHANGED <<cli, parse, seed, strategy, wl, phase, clock, instants, samples,
                   samples_lock, joined, overall, events_written, events_read,
                   result, done_ops>>

\* set.join_next().await yields a finished task to the join loop, which merges
\* the histogram and adds the task's count: the writers add hist.len(), the
\* readers the events they read.
JoinNext(i) ==
    /\ Running
    /\ UNCHANGED runvars
    /\ task[i].pc = "done"
    /\ i \notin joined
    /\ joined' = joined \cup {i}
    /\ overall' = overall (+) task[i].rec
    /\ events_written' = IF strategy = "readers" THEN events_written
                         ELSE add_written(events_written, task[i].rec)
    /\ events_read' = IF strategy = "readers"
                      THEN add_read(events_read, task[i].total_events_read)
                      ELSE events_read
    /\ UNCHANGED <<cli, parse, seed, strategy, wl, phase, clock, instants, task,
                   samples, samples_lock, result, done_ops>>

\* join_next yields a task that panicked: res.expect("join") panics in turn,
\* the JoinSet is dropped and the remaining tasks are aborted.
JoinPanic(i) ==
    /\ Running
    /\ UNCHANGED runvars
    /\ task[i].pc = "panicked"
    /\ phase' = "panicked"
    /\ result' = [kind |-> "panic"]
    /\ UNCHANGED <<cli, parse, seed, strategy, wl, clock, instants, task, samples, samples_lock,
                   joined, overall, events_written, events_read, done_ops>>

Spawned == {i \in Tasks : task[i].pc # "none"}

\* Variant: the join loop stops after the first task that finished.
AnyJoined == joined # {} \/ Spawned = {}

\* The join loop has drained the JoinSet.
AllJoined == joined = Spawned

\* execute: samples.lock().await.clone(), then Ok((overall, written, read, vec)).
ExecuteReturn ==
    /\ Running
    /\ UNCHANGED runvars
    /\ strategy \in {"writers", "readers"}
    /\ AllJoined
    /\ samples_lock = 0
    /\ phase' = "returned"
    /\ result' = [kind |-> "Ok", overall |-> overall,
                  events_written |-> events_written,
                  events_read |-> events_read, samples |-> samples]
    /\ UNCHANGED <<cli, parse, seed, strategy, wl, clock, instants, task, samples, samples_lock,
                   joined, overall, events_written, events_read, done_ops>>

\* ------------------------------------------------------ execute, from a call

\* The stats loop before it is spawned.  container_id is the Option the
\* closure captures, since the instant its running command was started, wake
\* the instant its sleep ends; parsed counts the snapshots taken that were
\* obtained and parsed.
NoSampler == [pc |-> "none", container_id |-> "None", since |-> 0, wake |-> 0,
              cpu_samples |-> <<>>, mem_samples |-> <<>>, parsed |-> 0]

\* The caller's state around execute: no container, the adapters handed over.
\* No adapter-level call is made by the workflow or the runner model: their
\* operations are the outcomes drawn in AppendReturn and ReadReturn.
NoAdapter == [kind |-> "none"]

NoRunner ==
    /\ ad = NoAdapter
    /\ container_manager = "None"
    /\ writer_adapters = <<>>
    /\ clients = 0
    /\ sampler = NoSampler
    /\ metrics = [kind |-> "None"]

\* execute(adapters, measurement_start, measurement_end, end_at): one task is
\* spawned per adapter of the strategy's vector; the instants are the runner's.
Execute(seeds, workloads, counts) ==
    /\ cli = NoCli
    /\ parse = NoParse
    /\ seed \in seeds
    /\ strategy \in {"writers", "readers"}
    /\ \E n \in counts :
          /\ wl \in {w \in workloads :
                       /\ w.setup = NoSetup
                       /\ w.writers = IF strategy = "writers" THEN n ELSE 0
                       /\ w.readers = IF strategy = "readers" THEN n ELSE 0}
          /\ task = [i \in Tasks |-> IF i <= n THEN SpawnedTask(i, i - 1)
                                     ELSE IdleTask]
    /\ NoRunner
    /\ phase = "running"
    /\ clock \in Skews
    /\ instants = Instants(0, wl.duration_seconds)
    /\ samples = <<>>
    /\ samples_lock = 0
    /\ joined = {}
    /\ overall = EmptyBag
    /\ events_written = 0
    /\ events_read = 0
    /\ result = [kind |-> "none"]
    /\ done_ops = NoOps

Init == Execute({SmokeSeed}, Workloads, 0..MaxTasks)

Next ==
    \/ \E i \in Tasks : TaskBegin(i)
    \/ \E i \in Tasks : TaskPanic(i)
    \/ \E i \in Tasks : TaskExit(i)
    \/ \E i \in Tasks : JoinNext(i)
    \/ \E i \in Tasks : AppendReturn(i)
    \/ \E i \in Tasks : ReadReturn(i)
    \/ \E i \in Tasks : LockAcquire(i)
    \/ \E i \in Tasks : Push(i)
    \/ \E i \in Tasks : JoinPanic(i)
    \/ Tick
    \/ ExecuteReturn

Spec == Init /\ [][Next]_vars

\* execute with a single task, for the stream selection: other seeds, and
\* stream configurations with a hot set below and at its cap.

DrawWorkloads ==
    [duration_seconds : Durations, writers : 0..MaxTasks,
     readers : 0..MaxTasks, streams : DrawStreamConfigs, setup : {NoSetup}]

DrawInit == Execute(Seeds, DrawWorkloads, {1})

DrawSpec == DrawInit /\ [][Next]_vars

\* ------------------------------------------------------------ run_workload

\* The texts of a running container's snapshot, and what docker prints in
\* their place for a container that is not running.
CpuText == <<52, 48, 46, 53, 37>>  \* "40.5%"
MemText == <<49, 48, 48, 66, 32, 47, 32, 50, 75, 105, 66>>  \* "100B / 2KiB"
CpuDashes == <<45, 45>>  \* "--"
MemDashes == <<45, 45, 32, 47, 32, 45, 45>>  \* "-- / --"

\* The outputs the docker command can give: the snapshot of a running
\* container, a failing command, an output that is not JSON, and the snapshot
\* of a container that is not running.
DockerOutputs ==
    {DockerOutput(TRUE, TRUE, CpuText, MemText),
     DockerOutput(FALSE, FALSE, <<>>, <<>>),
     DockerOutput(TRUE, FALSE, <<>>, <<>>),
     DockerOutput(TRUE, TRUE, CpuDashes, MemDashes)}

\* What get_container_stats makes of them, worked out once.
TabledStats == [o \in DockerOutputs |-> get_container_stats(o)] @@ <<>>
TabledParsed == [o \in DockerOutputs |-> obtained_and_parsed(o)] @@ <<>>

RECURSIVE SumSeq(_)
SumSeq(q) == IF q = <<>> THEN 0 ELSE Head(q) + SumSeq(Tail(q))

\* fold(0.0, f64::max): the greatest of 0.0 and the samples.
RECURSIVE f64_fold_max(_, _)
f64_fold_max(q, acc) ==
    IF q = <<>> THEN acc
    ELSE the({f64_fold_max(Tail(q), max) : max \in {f64_max(acc, Head(q))}})

\* The sum of u64 values, as a number.
RECURSIVE big_sum(_)
big_sum(q) ==
    IF q = <<>> THEN <<>>
    ELSE the({big_add(Head(q), sum) : sum \in {big_sum(Tail(q))}})

\* iter().max(): the greatest of u64 values, there being one at least.
RECURSIVE big_max(_, _)
big_max(q, acc) ==
    IF q = <<>> THEN acc
    ELSE the({big_max(Tail(q), max) :
                max \in {IF big_lt(acc, Head(q)) THEN Head(q) ELSE acc}})

\* A sum within u64: what the additions that wrap around leave of it.
RECURSIVE wrapping(_)
wrapping(n) ==
    the({IF big_le(m, u64_MAX) THEN m
         ELSE wrapping(big_sub(big_sub(m, u64_MAX), One)) : m \in {n}})

\* iter().sum::<u64>() overflows: the additions panic in a build with
\* overflow checks and wrap around in one without.
sum_overflows(mem_samples) == big_lt(u64_MAX, big_sum(mem_samples))

\* mem_samples.iter().sum::<u64>() / mem_samples.len() as u64
mean_u64(mem_samples) ==
    big_divmod(wrapping(big_sum(mem_samples)), Len(mem_samples)).q

\* Variant: the peaks are the samples taken last.
container_aggregates_last_as_peak(cpu_samples, mem_samples) ==
    [avg_cpu_percent |->
        IF cpu_samples # <<>>
        THEN [some |-> TRUE, value |-> f64_mean(cpu_samples)]
        ELSE [some |-> FALSE],
     peak_cpu_percent |->
        IF cpu_samples # <<>>
        THEN [some |-> TRUE, value |-> cpu_samples[Len(cpu_samples)]]
        ELSE [some |-> FALSE],
     avg_memory_bytes |->
        IF mem_samples # <<>>
        THEN [some |-> TRUE, value |-> mean_u64(mem_samples)]
        ELSE [some |-> FALSE],
     peak_memory_bytes |->
        IF mem_samples # <<>>
        THEN [some |-> TRUE, value |-> mem_samples[Len(mem_samples)]]
        ELSE [some |-> FALSE]]

\* The four aggregate fields of ContainerMetrics: present only when a sample
\* of the kind was collected.
container_aggregates(cpu_samples, mem_samples) ==
    [avg_cpu_percent |->
        IF cpu_samples # <<>>
        THEN [some |-> TRUE, value |-> f64_mean(cpu_samples)]
        ELSE [some |-> FALSE],
     peak_cpu_percent |->
        IF cpu_samples # <<>>
        THEN [some |-> TRUE, value |-> f64_fold_max(cpu_samples, Zero(FALSE))]
        ELSE [some |-> FALSE],
     avg_memory_bytes |->
        IF mem_samples # <<>>
        THEN [some |-> TRUE, value |-> mean_u64(mem_samples)]
        ELSE [some |-> FALSE],
     peak_memory_bytes |->
        IF mem_samples # <<>>
        THEN [some |-> TRUE, value |-> big_max(mem_samples, <<>>)]
        ELSE [some |-> FALSE]]

\* (events_written as f64) / dur_s.max(0.001), as a fraction of integers:
\* events per millisecond times 1000.
throughput_eps(written, duration_seconds) ==
    [num |-> written * MsPerSec,
     den |-> Max(from_secs(duration_seconds), 1)]

\* Variant: duration_s is the time the run took from start_at, in seconds.
summary_of_wall_clock(w, written, hist, cpu_samples, mem_samples) ==
    [writers |-> w.writers,
     events_written |-> written,
     events_read |-> 0,
     duration_s |-> (clock - instants.start_at) \div MsPerSec,
     throughput_eps |-> throughput_eps(written, w.duration_seconds),
     hist_count |-> hist_len(hist),
     container |-> container_aggregates(cpu_samples, mem_samples)]

\* Summary, as run_workload fills it.
summary_of(w, written, hist, cpu_samples, mem_samples) ==
    [writers |-> w.writers,
     events_written |-> written,
     events_read |-> 0,
     duration_s |-> w.duration_seconds,
     throughput_eps |-> throughput_eps(written, w.duration_seconds),
     hist_count |-> hist_len(hist),
     container |-> container_aggregates(cpu_samples, mem_samples)]

\* Variant: every task is handed the first client.
adapter_shared(adapters, i) == adapters[1]

\* writer_adapters.into_iter().enumerate(): the adapter moved into task i.
adapter_of(adapters, i) == adapters[i]

\* container_manager.as_ref().and_then(|cm| cm.container_id()): None without
\* a manager; with one, what its container_id() gives: None by the trait's
\* default, Some(id) when the manager overrides it.
container_ids == IF container_manager = "started" THEN {"None", "id"}
                 ELSE {"None"}

\* The container_id the closure of the stats loop has captured.
container_id == sampler.container_id

StopCalled == container_manager \in {"stopped", "stop_failed"}

Unchanged_workflow ==
    UNCHANGED <<cli, parse, seed, strategy, wl, clock, instants, task, samples, samples_lock,
                joined, overall, events_written, events_read, done_ops, ad>>

\* if let Some(cm) = container_manager { cm.start().await? }: the start
\* succeeds, or its error is returned.
ContainerStart ==
    /\ phase = "start"
    /\ container_manager = "created"
    /\ \/ /\ container_manager' = "started"
          /\ phase' = "create"
          /\ UNCHANGED result
       \/ /\ container_manager' = "start_failed"
          /\ phase' = "returned"
          /\ result' = [kind |-> "Err", at |-> "start"]
    /\ UNCHANGED <<writer_adapters, clients, sampler, metrics>>
    /\ Unchanged_workflow

\* else: no container manager, the caller's connection parameters are used.
NoContainer ==
    /\ phase = "start"
    /\ container_manager = "None"
    /\ phase' = "create"
    /\ UNCHANGED <<result, runvars>>
    /\ Unchanged_workflow

\* One turn of `for i in 0..wl.writers`: factory.create makes a new client
\* instance, which is pushed onto writer_adapters.
CreateWriter ==
    /\ phase = "create"
    /\ Len(writer_adapters) < wl.writers
    /\ clients' = clients + 1
    /\ writer_adapters' = Append(writer_adapters, clients')
    /\ UNCHANGED <<phase, result, container_manager, sampler, metrics>>
    /\ Unchanged_workflow

\* Variant: the run bails out on a failing factory.create and leaves the
\* started container running.
CreateWriterNoStop ==
    /\ phase = "create"
    /\ Len(writer_adapters) < wl.writers
    /\ phase' = "returned"
    /\ result' = [kind |-> "Err", at |-> "create"]
    /\ UNCHANGED <<container_manager, writer_adapters, clients, sampler, metrics>>
    /\ Unchanged_workflow

\* The same turn when factory.create fails: the container, if any, is stopped
\* (a failing stop returns its own error) and the run bails out.
CreateWriterFails ==
    /\ phase = "create"
    /\ Len(writer_adapters) < wl.writers
    /\ phase' = "returned"
    /\ \/ /\ container_manager = "None"
          /\ result' = [kind |-> "Err", at |-> "create"]
          /\ UNCHANGED container_manager
       \/ /\ container_manager = "started"
          /\ container_manager' = "stopped"
          /\ result' = [kind |-> "Err", at |-> "create"]
       \/ /\ container_manager = "started"
          /\ container_manager' = "stop_failed"
          /\ result' = [kind |-> "Err", at |-> "stop"]
    /\ UNCHANGED <<writer_adapters, clients, sampler, metrics>>
    /\ Unchanged_workflow

\* All clients are ready: the clock is defined from Instant::now(), the stats
\* loop is handed to spawn_blocking and one task is spawned per writer adapter.
Launch ==
    /\ phase = "create"
    /\ Len(writer_adapters) = wl.writers
    /\ instants' = Instants(clock, wl.duration_seconds)
    /\ clock' \in {clock + skew : skew \in Skews}
    /\ \E id \in container_ids :
          sampler' = [NoSampler EXCEPT !.pc = "run", !.wake = clock',
                                       !.container_id = id]
    /\ task' = [i \in Tasks |->
                  IF i <= Len(writer_adapters)
                  THEN SpawnedTask(adapter_of(writer_adapters, i), i - 1)
                  ELSE IdleTask]
    /\ phase' = "running"
    /\ UNCHANGED <<cli, parse, seed, strategy, wl, samples, samples_lock, joined, overall,
                   events_written, events_read, result, done_ops,
                   container_manager, writer_adapters, clients, metrics>>
    /\ UNCHANGED ad

\* The head of a turn of the stats loop, `while Instant::now() < end_at`:
\* with a container id the `docker stats` command is started and the thread
\* waits for it; without one the thread goes to sleep for one second.
SamplerStep ==
    /\ sampler.pc = "run"
    /\ clock >= sampler.wake
    /\ clock < end_at
    /\ \/ /\ container_id = "None"
          /\ sampler' = [sampler EXCEPT !.wake = clock + from_secs(1)]
       \/ /\ container_id # "None"
          /\ sampler' = [sampler EXCEPT !.pc = "stats", !.since = clock]
    /\ UNCHANGED <<phase, result, container_manager, writer_adapters, clients,
                   metrics>>
    /\ Unchanged_workflow

\* get_container_stats returns: a snapshot that is Ok is pushed onto both
\* Vecs; then the thread sleeps one second.
SamplerStats ==
    /\ sampler.pc = "stats"
    /\ \E output \in DockerOutputs :
          \E stats \in {TabledStats[output]},
             parsed \in {TabledParsed[output]} :
             sampler' =
               [sampler EXCEPT
                  !.pc = "run",
                  !.since = 0,
                  !.parsed = IF parsed THEN @ + 1 ELSE @,
                  !.wake = clock + from_secs(1),
                  !.cpu_samples = IF stats.ok
                                  THEN Append(@, stats.cpu_percent) ELSE @,
                  !.mem_samples = IF stats.ok
                                  THEN Append(@, stats.memory_bytes) ELSE @]
    /\ UNCHANGED <<phase, result, container_manager, writer_adapters, clients,
                   metrics>>
    /\ Unchanged_workflow

\* The stats loop's condition fails: the closure returns the two Vecs.
SamplerExit ==
    /\ sampler.pc = "run"
    /\ clock >= sampler.wake
    /\ clock >= end_at
    /\ sampler' = [sampler EXCEPT !.pc = "done"]
    /\ UNCHANGED <<phase, result, container_manager, writer_adapters, clients,
                   metrics>>
    /\ Unchanged_workflow

\* The join loop has drained the JoinSet: run_workload goes on to await the
\* stats handle.
JoinDone ==
    /\ Running
    /\ strategy \in {"runner", "smoke"}
    /\ AllJoined
    /\ phase' = "stats"
    /\ UNCHANGED <<result, runvars>>
    /\ Unchanged_workflow

\* stats_handle.await returns; container metrics, the Summary and the samples
\* snapshot (samples.lock().await.clone()) make the RunMetrics.  A sum of the
\* memory samples beyond u64 wraps around, or panics in a build with overflow
\* checks.
BuildMetrics ==
    /\ phase = "stats"
    /\ sampler.pc = "done"
    /\ samples_lock = 0
    /\ \/ /\ metrics' = [kind |-> "Some",
                         summary |-> summary_of(wl, events_written, overall,
                                                sampler.cpu_samples,
                                                sampler.mem_samples),
                         samples |-> samples]
          /\ phase' = "stop"
          /\ UNCHANGED result
       \/ /\ sum_overflows(sampler.mem_samples)
          /\ phase' = "panicked"
          /\ result' = [kind |-> "panic"]
          /\ UNCHANGED metrics
    /\ UNCHANGED <<container_manager, writer_adapters, clients, sampler>>
    /\ Unchanged_workflow

\* if let Some(mut cm) = container_manager { cm.stop().await?; } Ok(metrics)
ContainerStop ==
    /\ phase = "stop"
    /\ phase' = "returned"
    /\ \/ /\ container_manager = "None"
          /\ result' = [kind |-> "Ok", metrics |-> metrics]
          /\ UNCHANGED container_manager
       \/ /\ container_manager = "started"
          /\ container_manager' = "stopped"
          /\ result' = [kind |-> "Ok", metrics |-> metrics]
       \/ /\ container_manager = "started"
          /\ container_manager' = "stop_failed"
          /\ result' = [kind |-> "Err", at |-> "stop"]
    /\ UNCHANGED <<writer_adapters, clients, sampler, metrics>>
    /\ Unchanged_workflow

\* The workloads run_workload is given: it never reads wl.readers.  The
\* workloads with streams to draw from carry a setup section, the ones whose
\* draw panics carry none.
RunnerWorkloads ==
    {w \in Workloads :
        /\ w.readers = 0
        /\ w.setup.present <=> w.streams.unique_streams > 0}

\* run_workload(factory, wl, opts): factory.create_container_manager() has
\* returned a manager or None; nothing else has happened.
Run(name, workloads, managers) ==
    /\ cli = NoCli
    /\ parse = NoParse
    /\ seed = SmokeSeed
    /\ strategy = name
    /\ wl \in workloads
    /\ container_manager \in managers
    /\ phase = "start"
    /\ clock = 0
    /\ instants = Instants(0, 0)
    /\ task = [i \in Tasks |-> IdleTask]
    /\ writer_adapters = <<>>
    /\ clients = 0
    /\ sampler = NoSampler
    /\ metrics = [kind |-> "None"]
    /\ ad = NoAdapter
    /\ samples = <<>>
    /\ samples_lock = 0
    /\ joined = {}
    /\ overall = EmptyBag
    /\ events_written = 0
    /\ events_read = 0
    /\ result = [kind |-> "none"]
    /\ done_ops = NoOps

RunInit == Run("runner", RunnerWorkloads, {"None", "created"})

RunNext ==
    \/ ContainerStart
    \/ NoContainer
    \/ CreateWriter
    \/ CreateWriterFails
    \/ Launch
    \/ SamplerStep
    \/ SamplerStats
    \/ SamplerExit
    \/ \E i \in Tasks : TaskBegin(i)
    \/ \E i \in Tasks : TaskPanic(i)
    \/ \E i \in Tasks : AppendReturn(i)
    \/ \E i \in Tasks : LockAcquire(i)
    \/ \E i \in Tasks : Push(i)
    \/ \E i \in Tasks : TaskExit(i)
    \/ \E i \in Tasks : JoinNext(i)
    \/ \E i \in Tasks : JoinPanic(i)
    \/ Tick
    \/ JoinDone
    \/ BuildMetrics
    \/ ContainerStop

RunSpec == RunInit /\ [][RunNext]_vars

\* run_workload with every thread and task scheduled and every operation
\* returning: a run goes on for as long as one of its steps can be taken.
\* The runs are those of one writer at the most.
FairRunInit ==
    Run("runner", {w \in RunnerWorkloads : w.writers <= 1}, {"None", "created"})

FairRunSpec == FairRunInit /\ [][RunNext]_vars /\ WF_vars(RunNext)

\* The Workload of the smoke test.
SmokeWorkload ==
    [duration_seconds |-> 1, writers |-> 2, readers |-> 0,
     streams |-> SmokeStreams,
     setup |-> NoSetup]

\* The progress run: run_workload with writers and without a container (the
\* smoke test's dummy factory has none), whose factory.create and appends
\* always succeed.  The tasks, the sampler and the coordinator are scheduled
\* fairly: no step that stays possible is put off forever.
SmokeWorkloads == {w \in RunnerWorkloads : w.writers >= 1} \cup {SmokeWorkload}

SmokeInit == Run("smoke", SmokeWorkloads, {"None"})

\* Without a container id the stats loop never starts the command, so that
\* its return is no step of these runs.
SmokeNext ==
    \/ NoContainer
    \/ CreateWriter
    \/ Launch
    \/ SamplerStep
    \/ SamplerExit
    \/ \E i \in Tasks : TaskBegin(i)
    \/ \E i \in Tasks : TaskPanic(i)
    \/ \E i \in Tasks : AppendReturn(i)
    \/ \E i \in Tasks : LockAcquire(i)
    \/ \E i \in Tasks : Push(i)
    \/ \E i \in Tasks : TaskExit(i)
    \/ \E i \in Tasks : JoinNext(i)
    \/ \E i \in Tasks : JoinPanic(i)
    \/ Tick
    \/ JoinDone
    \/ BuildMetrics
    \/ ContainerStop

SmokeSpec == SmokeInit /\ [][SmokeNext]_vars /\ WF_vars(SmokeNext)

\* ---------------------------------------------------------------- adapters
\* One client adapter (UmaDbAdapter, KurrentDbAdapter, AxonServerAdapter,
\* EventsourcingDbAdapter) driven by one caller, one call at a time, together
\* with the store it talks to.

MaxCalls == 3

\* for _ in 0..60
ProbeBudget == 60

AdapterKinds == {"umadb", "kurrentdb", "axonserver", "eventsourcingdb"}

\* Option<u64>: None, Some(v).
None == [some |-> FALSE, v |-> 0]

Some(v) == [some |-> TRUE, v |-> v]

\* ReadRequest { from_offset, limit }
NoRequest == [from_offset |-> None, limit |-> None]

\* What the caller saw of a call: the call, whether it returned Ok, what a
\* read was asked and returned; and what the call did behind the adapter: how
\* often it invoked the container's stop, how many requests it sent to the
\* store, whether the store answered it with an error.
NoCall ==
    [op |-> "none", ok |-> TRUE, stops |-> 0, requests |-> 0,
     store_err |-> FALSE, req |-> NoRequest, out |-> <<>>,
     events |-> <<>>, outcomes |-> <<>>, attempted |-> 0, before |-> <<>>]

Call(op, ok) == [NoCall EXCEPT !.op = op, !.ok = ok]

\* Adapter::new(): no client, no container.
NewAdapter(kind) ==
    [kind |-> kind, pc |-> "idle", client |-> FALSE, container |-> "None",
     attempts |-> 0, sleeps |-> 0, succeeded |-> 0, stop_calls |-> 0,
     calls |-> 0, store |-> <<>>, appended |-> <<>>,
     last |-> NoCall, prev |-> [op |-> "none", ok |-> TRUE]]

\* The call returns to the caller.
Return(a, call) ==
    [a EXCEPT !.pc = "idle",
              !.prev = [op |-> a.last.op, ok |-> a.last.ok],
              !.last = call]

\* A call begins; the loop counters of an earlier setup are gone with it.
Begin(a) ==
    [a EXCEPT !.calls = @ + 1, !.attempts = 0, !.sleeps = 0, !.succeeded = 0]

AdapterIdle == ad.kind # "none" /\ ad.pc = "idle" /\ ad.calls < MaxCalls

\* The workflow and runner state, which no adapter call touches.
Unchanged_harness ==
    UNCHANGED <<cli, parse, seed, strategy, wl, phase, clock, instants, task, samples,
                samples_lock, joined, overall, events_written, events_read,
                result, done_ops, container_manager, writer_adapters, clients,
                sampler, metrics>>

\* setup, up to the readiness loop: the container is started (an error of the
\* start or of get_host_port_ipv4 is returned) and stored in self.container,
\* in the place of the container of an earlier setup.
SetupBegin ==
    /\ AdapterIdle
    /\ LET a == Begin(ad)
       IN \/ ad' = Return(a, Call("setup", FALSE))
          \/ ad' = [a EXCEPT !.container = "running", !.pc = "probing"]
    /\ Unchanged_harness

\* One readiness probe: EventsourcingDB pings with a fresh client; the others
\* connect a client, store it, and ping through it.
ProbeOutcomes(kind) ==
    IF kind = "eventsourcingdb" THEN {"ping_failed", "ready"}
    ELSE {"connect_failed", "ping_failed", "ready"}

\* self.client after the probe: EventsourcingDB stores the client only when
\* the ping succeeded, the others as soon as the connect succeeded.
client_after(kind, client, outcome) ==
    IF kind = "eventsourcingdb" THEN client \/ outcome = "ready"
    ELSE client \/ outcome # "connect_failed"

\* Variant: the range of the readiness loop is inclusive, 0..=60.
budget_left_inclusive(attempts) == attempts <= ProbeBudget

\* for _ in 0..60: another turn of the readiness loop is left.
budget_left(attempts) == attempts < ProbeBudget

\* One turn of the readiness loop: a successful probe returns Ok(()) at once,
\* a failed one is followed by the one-second sleep.
Probe ==
    /\ ad.kind # "none"
    /\ ad.pc = "probing"
    /\ budget_left(ad.attempts)
    /\ \E outcome \in ProbeOutcomes(ad.kind) :
          LET a == [ad EXCEPT !.attempts = @ + 1,
                              !.client = client_after(ad.kind, @, outcome)]
          IN ad' = IF outcome = "ready"
                   THEN Return([a EXCEPT !.succeeded = @ + 1],
                               Call("setup", TRUE))
                   ELSE [a EXCEPT !.sleeps = @ + 1]
    /\ Unchanged_harness

\* The readiness loop has run out: bail!("... did not become ready within 60s").
SetupGivesUp ==
    /\ ad.kind # "none"
    /\ ad.pc = "probing"
    /\ ~budget_left(ad.attempts)
    /\ ad' = Return(ad, Call("setup", FALSE))
    /\ Unchanged_harness

\* Variant: teardown looks at the container through as_ref() and leaves it in
\* self.container.
TeardownKeepsContainer ==
    /\ AdapterIdle
    /\ LET a == [Begin(ad) EXCEPT !.client = FALSE]
       IN \/ /\ ad.container = "None"
             /\ ad' = Return(a, Call("teardown", TRUE))
          \/ /\ ad.container = "running"
             /\ \E ok \in BOOLEAN :
                   ad' = Return([a EXCEPT !.stop_calls = @ + 1],
                                [Call("teardown", ok) EXCEPT !.stops = 1])
    /\ Unchanged_harness

\* teardown: the client is dropped, the container is taken out of
\* self.container and, when there was one, stopped; a failing stop is returned.
Teardown ==
    /\ AdapterIdle
    /\ LET a == [Begin(ad) EXCEPT !.client = FALSE, !.container = "None"]
       IN \/ /\ ad.container = "None"
             /\ ad' = Return(a, Call("teardown", TRUE))
          \/ /\ ad.container = "running"
             /\ \E ok \in BOOLEAN :
                   ad' = Return([a EXCEPT !.stop_calls = @ + 1],
                                [Call("teardown", ok) EXCEPT !.stops = 1])
    /\ Unchanged_harness

\* connect: a client for the given URI is built and stored, or the error of
\* building it is returned.
Connect ==
    /\ AdapterIdle
    /\ LET a == Begin(ad)
       IN \/ ad' = Return([a EXCEPT !.client = TRUE], Call("connect", TRUE))
          \/ ad' = Return(a, Call("connect", FALSE))
    /\ Unchanged_harness

\* --- events, as the caller gives them and as the store keeps them

MaxStore == 2

\* event_type, as its dot-separated segments: "test", "a.b".
EventTypes == {<<"test">>, <<"a", "b">>}

\* payload bytes: the harness's zero-filled payload; "1"; "\t1e2".
Payloads == {<<0, 0>>, <<49>>, <<9, 49, 101, 50>>}

\* EventData { stream, event_type, payload }: all to the one stream read back.
Events == [event_type : EventTypes, payload : Payloads]

\* The events of the batches: the harness's event and one of another type.
BatchEvents ==
    {[event_type |-> <<"test">>, payload |-> <<0, 0>>],
     [event_type |-> <<"a", "b">>, payload |-> <<49>>]}

ReadRequests ==
    [from_offset : {None, Some(0), Some(1)},
     limit : {None, Some(0), Some(1), Some(2)}]

\* evt.event_type.contains('.')
contains_dot(event_type) == Len(event_type) > 1

\* format!("io.eventsourcingdb.bench.{}", evt.event_type)
bench_prefixed(event_type) == <<"io", "eventsourcingdb", "bench">> \o event_type

\* .ty(...) of the EventCandidate
ty_of(event_type) ==
    IF contains_dot(event_type) THEN event_type
    ELSE bench_prefixed(event_type)

\* ------------------------------------------------------------- serde_json
\* JSON text is bytes.

\* a * b and a / b of two f64 above 0.
f64_mul(a, b) ==
    LET e == a.e + b.e
    IN nearest_f64(big_scale(big_times(a.q, b.q), 2, e), big_scale(One, 2, 0 - e))

f64_div(a, b) ==
    LET e == a.e - b.e
    IN nearest_f64(big_scale(a.q, 2, e), big_scale(b.q, 2, 0 - e))

\* static POW10: [f64; 309]: the f64 nearest to 10^k.
MaxPow10 == 308
POW10(k) == nearest_f64(big_scale(One, 10, k), One)

\* The digit generation of the shortest decimal that reads back as the f64
\* q * 2^e: r / s is what is left of the value, mp / s and mm / s are the
\* distances to the midpoints of its neighbours, which belong to it when q is
\* even.
reaches(r, mp, s, even) ==
    IF even THEN big_le(s, big_add(r, mp)) ELSE big_lt(s, big_add(r, mp))

RECURSIVE generate(_, _, _, _, _)

\* The digit d was taken and dr.r is left: the digits end when what is left
\* is within reach of a boundary.
decide(dr, mp10, mm10, s, even) ==
    LET low == IF even THEN big_le(dr.r, mm10) ELSE big_lt(dr.r, mm10)
        high == reaches(dr.r, mp10, s, even)
        twice == big_mul(dr.r, 2)
        nearer_low == big_lt(twice, s) \/ (twice = s /\ dr.d % 2 = 0)
    IN IF ~low /\ ~high THEN <<dr.d>> \o generate(dr.r, mp10, mm10, s, even)
       ELSE IF low /\ (~high \/ nearer_low) THEN <<dr.d>>
       ELSE <<dr.d + 1>>

left(r10, s, d) == [d |-> d, r |-> big_sub(r10, big_mul(s, d))]

next_digit(r10, mp10, mm10, s, even) ==
    decide(left(r10, s, CHOOSE d \in 0..9 : /\ big_le(big_mul(s, d), r10)
                                            /\ big_lt(r10, big_mul(s, d + 1))),
           mp10, mm10, s, even)

generate(r, mp, mm, s, even) ==
    next_digit(big_mul(r, 10), big_mul(mp, 10), big_mul(mm, 10), s, even)

times2(a, twice) == IF twice THEN big_mul(a, 2) ELSE a

\* The value and the distances as fractions of s, from p = 2^|e|: a
\* significand of 2^52 is twice as near to the f64 below it.
boundaries(q, e, p) ==
    LET boundary == q = Two52 /\ e > F64MinExp
        m0 == IF e >= 0 THEN p ELSE One
    IN [r |-> times2(big_mul(IF e >= 0 THEN big_times(q, p) ELSE q, 2), boundary),
        s |-> times2(IF e >= 0 THEN <<2>> ELSE big_mul(p, 2), boundary),
        mp |-> times2(m0, boundary),
        mm |-> m0]

\* Whether the value with its upper distance reaches 10^k.
above(b, even, k) ==
    reaches(big_scale(b.r, 10, 0 - k), big_scale(b.mp, 10, 0 - k),
            big_scale(b.s, 10, k), even)

digits_at(b, even, k) ==
    [digits |-> generate(big_scale(b.r, 10, 0 - k), big_scale(b.mp, 10, 0 - k),
                         big_scale(b.mm, 10, 0 - k), big_scale(b.s, 10, k),
                         even),
     exp |-> k - 1]

\* The k with 10^(k - 1) reached and 10^k not.
power_of(b, even) ==
    LET d == Len(big_add(b.r, b.mp)) - Len(b.s)
    IN 1 + greatest({k \in (4 * (d - 1) - 1)..(4 * (d + 1)) : above(b, even, k)})

shortest_of(b, even) == digits_at(b, even, power_of(b, even))

\* The shortest decimal digits d1 d2 .. that read back as the f64 q * 2^e,
\* nearest to it, and the power of ten x of d1: the value is d1.d2.. * 10^x.
shortest(q, e) ==
    shortest_of(boundaries(q, e, big_pow(2, IF e >= 0 THEN e ELSE 0 - e)),
                big_even(q))

\* serde_json::Value
Null == [form |-> "null"]
Bool(b) == [form |-> "bool", b |-> b]
PosInt(digits) == [form |-> "u64", digits |-> digits]
NegInt(digits) == [form |-> "i64", digits |-> digits]
Float(neg, f) == [form |-> "f64", neg |-> neg, q |-> f.q, e |-> f.e]
String(s) == [form |-> "string", s |-> s]
Array(items) == [form |-> "array", items |-> items]
Object(members) == [form |-> "object", members |-> members]

\* What a step of the parser gives: the value and the place after it, or an
\* error.
Parsed(value, at) == [ok |-> TRUE, value |-> value, at |-> at]
SyntaxError == [ok |-> FALSE, value |-> Null, at |-> 0]

JsonWhitespace == {32, 9, 10, 13}

\* The byte at i, -1 past the end.
peek(t, i) == IF i >= 1 /\ i <= Len(t) THEN t[i] ELSE -1

RECURSIVE parse_whitespace(_, _)
parse_whitespace(t, i) ==
    IF peek(t, i) \in JsonWhitespace THEN parse_whitespace(t, i + 1) ELSE i

\* The white space before a value and after it is skipped.
RECURSIVE trim_start(_)
trim_start(p) ==
    IF p # <<>> /\ Head(p) \in JsonWhitespace THEN trim_start(Tail(p)) ELSE p

RECURSIVE trim_end(_)
trim_end(p) ==
    IF p # <<>> /\ p[Len(p)] \in JsonWhitespace
    THEN trim_end(SubSeq(p, 1, Len(p) - 1))
    ELSE p

is_digit(b) == b >= 48 /\ b <= 57

\* The place after the digits that start at i.
RECURSIVE digits_end(_, _)
digits_end(t, i) == IF is_digit(peek(t, i)) THEN digits_end(t, i + 1) ELSE i

\* The values of the digits t[i] .. t[j - 1].
digits_of(t, i, j) == [k \in 1..(j - i) |-> t[i + k - 1] - 48]

RECURSIVE strip_zeros(_)
strip_zeros(d) == IF d # <<>> /\ Head(d) = 0 THEN strip_zeros(Tail(d)) ELSE d

RECURSIVE digits_less(_, _)
digits_less(a, b) ==
    IF a = <<>> THEN FALSE
    ELSE IF Head(a) # Head(b) THEN Head(a) < Head(b)
    ELSE digits_less(Tail(a), Tail(b))

\* a <= b, for numbers written without leading zeros.
digits_le(a, b) ==
    IF Len(a) # Len(b) THEN Len(a) < Len(b) ELSE ~digits_less(b, a)

u64_MAX_digits == <<1, 8, 4, 4, 6, 7, 4, 4, 0, 7, 3, 7, 0, 9, 5, 5, 1, 6, 1, 5>>
i64_MIN_digits == <<9, 2, 2, 3, 3, 7, 2, 0, 3, 6, 8, 5, 4, 7, 7, 5, 8, 0, 8>>
i32_MAX_digits == <<2, 1, 4, 7, 4, 8, 3, 6, 4, 7>>

\* significand = significand * 10 + digit for the digits from the i-th on,
\* for as long as the u64 holds it: the significand and the digits taken.
RECURSIVE accumulate(_, _, _)
accumulate(significand, d, i) ==
    IF i > Len(d) \/ ~digits_le(strip_zeros(significand \o <<d[i]>>),
                                u64_MAX_digits)
    THEN [significand |-> significand, taken |-> i - 1]
    ELSE accumulate(strip_zeros(significand \o <<d[i]>>), d, i + 1)

RECURSIVE digits_value_of(_)
digits_value_of(d) ==
    IF d = <<>> THEN 0
    ELSE (digits_value_of(SubSeq(d, 1, Len(d) - 1)) * 10) + d[Len(d)]

\* f *= POW10[exponent], f /= POW10[-exponent]: an infinite product is an
\* error (number out of range); beyond the table the division goes in steps
\* of 1e308, p being the power of ten of this step.
RECURSIVE f64_from_parts(_, _)

in_range(f) == [ok |-> ~f.inf, f |-> f]

after_division(f, exponent) ==
    IF exponent >= 0 THEN [ok |-> TRUE, f |-> f]
    ELSE f64_from_parts(f, exponent)

times_POW10(f, exponent, p) ==
    IF exponent >= 0 THEN in_range(f64_mul(f, p))
    ELSE after_division(f64_div(f, p), exponent + MaxPow10)

\* f64_from_parts: the significand as an f64, times or divided by the power
\* of ten of the table, in steps of 1e308 beyond it.
f64_from_parts(f, exponent) ==
    IF f.q = <<>> THEN [ok |-> TRUE, f |-> f64_zero]
    ELSE IF exponent > MaxPow10 THEN [ok |-> FALSE, f |-> f64_zero]
    ELSE times_POW10(f, exponent,
                     POW10(IF exponent >= 0 THEN exponent
                           ELSE IF 0 - exponent <= MaxPow10 THEN 0 - exponent
                           ELSE MaxPow10))

\* Deserializer::parse_integer and what it calls (parse_number,
\* parse_long_integer, parse_decimal, parse_decimal_overflow, parse_exponent,
\* parse_exponent_overflow): the number that starts at i.  A number with no
\* fraction and no exponent that a u64 holds, or below zero an i64, is that
\* integer; any other is an f64, made from the digits a u64 holds and a power
\* of ten.
as_f64(significand) == nearest_f64(big_of_digits(significand), One)

\* The float of a number with a fraction or an exponent, or too long.
checked(neg, at, f) ==
    IF f.ok THEN Parsed(Float(neg, f.f), at) ELSE SyntaxError

\* The number whose integer digits are t[a .. b - 1], whose fraction ends
\* before c and whose exponent has its digits at t[s .. d - 1].
number_at(t, positive, a, b, c, s, d) ==
    LET has_fraction == peek(t, b) = 46
        has_exponent == peek(t, c) \in {101, 69}
        positive_exp == ~(has_exponent /\ peek(t, c + 1) = 45)
        well_formed == /\ b > a
                       /\ ~(peek(t, a) = 48 /\ is_digit(peek(t, a + 1)))
                       /\ has_fraction => c > b + 1
                       /\ has_exponent => d > s
        whole == accumulate(<<>>, digits_of(t, a, b), 1)
        long_integer == whole.taken < b - a
        fraction == IF has_fraction
                    THEN accumulate(whole.significand, digits_of(t, b + 1, c), 1)
                    ELSE [significand |-> whole.significand, taken |-> 0]
        significand == fraction.significand
        starting_exp == (b - a) - whole.taken - fraction.taken
        exp_digits == strip_zeros(digits_of(t, s, d))
        exp_overflow == has_exponent /\ ~digits_le(exp_digits, i32_MAX_digits)
        exp == IF has_exponent /\ ~exp_overflow
               THEN digits_value_of(exp_digits) ELSE 0
        final_exp == IF positive_exp THEN starting_exp + exp
                     ELSE starting_exp - exp
    IN IF ~well_formed THEN SyntaxError
       ELSE IF ~has_fraction /\ ~has_exponent /\ ~long_integer
       THEN IF positive THEN Parsed(PosInt(digits_of(t, a, b)), d)
            ELSE IF significand # <<>> /\ digits_le(significand, i64_MIN_digits)
            THEN Parsed(NegInt(digits_of(t, a, b)), d)
            ELSE Parsed(Float(TRUE, as_f64(significand)), d)
       ELSE IF exp_overflow
       THEN IF significand # <<>> /\ positive_exp THEN SyntaxError
            ELSE Parsed(Float(~positive, f64_zero), d)
       ELSE checked(~positive, d,
                    f64_from_parts(as_f64(significand), final_exp))

\* The exponent, when there is one after c: e or E, a sign perhaps, digits.
exponent_at(t, positive, a, b, c, s) ==
    number_at(t, positive, a, b, c, s,
              IF peek(t, c) \in {101, 69} THEN digits_end(t, s) ELSE c)

\* The fraction, when there is one after b: a point and digits.
fraction_at(t, positive, a, b, c) ==
    exponent_at(t, positive, a, b, c,
                IF peek(t, c) \in {101, 69} /\ peek(t, c + 1) \in {43, 45}
                THEN c + 2 ELSE c + 1)

\* The integer digits from a on: one zero, or digits.
integer_at(t, positive, a, b) ==
    fraction_at(t, positive, a, b,
                IF peek(t, b) = 46 THEN digits_end(t, b + 1) ELSE b)

signed_at(t, positive, a) ==
    integer_at(t, positive, a,
               IF peek(t, a) = 48 THEN a + 1 ELSE digits_end(t, a))

parse_integer(t, i) ==
    signed_at(t, peek(t, i) # 45, IF peek(t, i) # 45 THEN i ELSE i + 1)

\* Whether b is a continuation byte of UTF-8.
is_continuation(b) == b >= 128 /\ b <= 191

\* The UTF-8 sequence that starts at i: its length and whether it is valid;
\* an invalid one is as long as the bytes that could have started a
\* character.
utf8_at(t, i) ==
    LET b0 == t[i]
        b1 == peek(t, i + 1)
        width == IF b0 < 128 THEN 1
                 ELSE IF b0 >= 194 /\ b0 <= 223 THEN 2
                 ELSE IF b0 >= 224 /\ b0 <= 239 THEN 3
                 ELSE IF b0 >= 240 /\ b0 <= 244 THEN 4
                 ELSE 0
        second == IF b0 = 224 THEN b1 >= 160 /\ b1 <= 191
                  ELSE IF b0 = 237 THEN b1 >= 128 /\ b1 <= 159
                  ELSE IF b0 = 240 THEN b1 >= 144 /\ b1 <= 191
                  ELSE IF b0 = 244 THEN b1 >= 128 /\ b1 <= 143
                  ELSE is_continuation(b1)
    IN IF width = 1 THEN [valid |-> TRUE, len |-> 1]
       ELSE IF width = 0 \/ ~second THEN [valid |-> FALSE, len |-> 1]
       ELSE IF width = 2 THEN [valid |-> TRUE, len |-> 2]
       ELSE IF ~is_continuation(peek(t, i + 2)) THEN [valid |-> FALSE, len |-> 2]
       ELSE IF width = 3 THEN [valid |-> TRUE, len |-> 3]
       ELSE IF ~is_continuation(peek(t, i + 3)) THEN [valid |-> FALSE, len |-> 3]
       ELSE [valid |-> TRUE, len |-> 4]

\* str::from_utf8(..).is_ok(), from the i-th byte on.
RECURSIVE is_utf8(_, _)
is_utf8(t, i) ==
    IF i > Len(t) THEN TRUE
    ELSE utf8_at(t, i).valid /\ is_utf8(t, i + utf8_at(t, i).len)

REPLACEMENT_CHARACTER == <<239, 191, 189>>

\* String::from_utf8_lossy, from the i-th byte on: every invalid sequence
\* becomes U+FFFD.
RECURSIVE from_utf8_lossy(_, _)
from_utf8_lossy(t, i) ==
    IF i > Len(t) THEN <<>>
    ELSE LET u == utf8_at(t, i)
         IN (IF u.valid THEN SubSeq(t, i, i + u.len - 1)
             ELSE REPLACEMENT_CHARACTER)
                \o from_utf8_lossy(t, i + u.len)

\* char::encode_utf8
encode_utf8(c) ==
    IF c < 128 THEN <<c>>
    ELSE IF c < 2048 THEN <<192 + (c \div 64), 128 + (c % 64)>>
    ELSE IF c < 65536
    THEN <<224 + (c \div 4096), 128 + ((c \div 64) % 64), 128 + (c % 64)>>
    ELSE <<240 + (c \div 262144), 128 + ((c \div 4096) % 64),
           128 + ((c \div 64) % 64), 128 + (c % 64)>>

\* The value of a hexadecimal digit, -1 for any other byte.
decode_hex_val(b) ==
    IF b >= 48 /\ b <= 57 THEN b - 48
    ELSE IF b >= 65 /\ b <= 70 THEN b - 55
    ELSE IF b >= 97 /\ b <= 102 THEN b - 87
    ELSE -1

\* The four hexadecimal digits at i, -1 when they are not that.
decode_hex_escape(t, i) ==
    LET h == [k \in 0..3 |-> decode_hex_val(peek(t, i + k))]
    IN IF \E k \in 0..3 : h[k] < 0 THEN -1
       ELSE ((h[0] * 16 + h[1]) * 16 + h[2]) * 16 + h[3]

\* parse_escape: the bytes an escape stands for and the place after it; the
\* backslash is at i.  A surrogate is an error unless a leading one is
\* followed by the escape of a trailing one.
parse_escape(t, i) ==
    LET c == peek(t, i + 1)
        n1 == decode_hex_escape(t, i + 2)
        n2 == decode_hex_escape(t, i + 8)
        leading == n1 >= 55296 /\ n1 <= 56319
        trailing(n) == n >= 56320 /\ n <= 57343
    IN IF c \in {34, 92, 47} THEN Parsed(<<c>>, i + 2)
       ELSE IF c = 98 THEN Parsed(<<8>>, i + 2)
       ELSE IF c = 102 THEN Parsed(<<12>>, i + 2)
       ELSE IF c = 110 THEN Parsed(<<10>>, i + 2)
       ELSE IF c = 114 THEN Parsed(<<13>>, i + 2)
       ELSE IF c = 116 THEN Parsed(<<9>>, i + 2)
       ELSE IF c # 117 \/ n1 < 0 \/ trailing(n1) THEN SyntaxError
       ELSE IF ~leading THEN Parsed(encode_utf8(n1), i + 6)
       ELSE IF peek(t, i + 6) = 92 /\ peek(t, i + 7) = 117 /\ trailing(n2)
       THEN Parsed(encode_utf8(65536 + (n1 - 55296) * 1024 + (n2 - 56320)),
                   i + 12)
       ELSE SyntaxError

\* parse_str: the string whose characters start after the quote; at.i is
\* the place in the text and at.s what was read.  A control character, the
\* end of the input and bytes that are not UTF-8 are errors.
RECURSIVE parse_str(_, _)

\* The string goes on after an escape with the bytes it stands for.
after_escape(t, at, escape) ==
    IF escape.ok
    THEN parse_str(t, [i |-> escape.at, s |-> at.s \o escape.value])
    ELSE SyntaxError

parse_str(t, at) ==
    LET b == peek(t, at.i)
    IN IF b = 34
       THEN IF is_utf8(at.s, 1) THEN Parsed(at.s, at.i + 1) ELSE SyntaxError
       ELSE IF b = 92 THEN after_escape(t, at, parse_escape(t, at.i))
       ELSE IF b < 32 THEN SyntaxError
       ELSE parse_str(t, [i |-> at.i + 1, s |-> Append(at.s, b)])

RECURSIVE bytes_less(_, _)
bytes_less(a, b) ==
    IF b = <<>> THEN FALSE
    ELSE IF a = <<>> THEN TRUE
    ELSE IF Head(a) # Head(b) THEN Head(a) < Head(b)
    ELSE bytes_less(Tail(a), Tail(b))

\* Map::insert: the members are kept in the order of their keys, and a key
\* that is there already gets the new value.
RECURSIVE insert(_, _, _)
insert(members, key, value) ==
    IF members = <<>> \/ bytes_less(key, Head(members).key)
    THEN <<[key |-> key, value |-> value]>> \o members
    ELSE IF Head(members).key = key
    THEN <<[key |-> key, value |-> value]>> \o Tail(members)
    ELSE <<Head(members)>> \o insert(Tail(members), key, value)

\* remaining_depth of the Deserializer
RecursionLimit == 128

is_ident(t, i, ident) ==
    /\ i + Len(ident) - 1 <= Len(t)
    /\ SubSeq(t, i, i + Len(ident) - 1) = ident

RECURSIVE parse_value(_, _, _)
RECURSIVE parse_elements(_, _, _, _)
RECURSIVE parse_members(_, _, _, _)

\* After an element: a comma and the next one, or the bracket.
element_end(t, depth, items, element) ==
    LET next == parse_whitespace(t, element.at)
    IN IF ~element.ok THEN SyntaxError
       ELSE IF peek(t, next) = 44
       THEN parse_elements(t, next + 1, depth, Append(items, element.value))
       ELSE IF peek(t, next) = 93
       THEN Parsed(Array(Append(items, element.value)), next + 1)
       ELSE SyntaxError

\* The elements of an array from i on, an element being due there.
parse_elements(t, i, depth, items) ==
    element_end(t, depth, items, parse_value(t, i, depth))

\* After a member's value: a comma and the next member, or the brace.
member_end(t, depth, members, key, value) ==
    LET next == parse_whitespace(t, value.at)
    IN IF ~value.ok THEN SyntaxError
       ELSE IF peek(t, next) = 44
       THEN parse_members(t, next + 1, depth,
                          insert(members, key, value.value))
       ELSE IF peek(t, next) = 125
       THEN Parsed(Object(insert(members, key, value.value)), next + 1)
       ELSE SyntaxError

\* After a member's key: the colon and the value.
member_value(t, depth, members, key) ==
    LET colon == parse_whitespace(t, key.at)
    IN IF ~key.ok \/ peek(t, colon) # 58 THEN SyntaxError
       ELSE member_end(t, depth, members, key.value,
                       parse_value(t, colon + 1, depth))

member_key(t, quote, depth, members) ==
    IF peek(t, quote) # 34 THEN SyntaxError
    ELSE member_value(t, depth, members,
                      parse_str(t, [i |-> quote + 1, s |-> <<>>]))

\* The members of an object from i on, a key being due there.
parse_members(t, i, depth, members) ==
    member_key(t, parse_whitespace(t, i), depth, members)

string_value(str) ==
    IF str.ok THEN Parsed(String(str.value), str.at) ELSE SyntaxError

\* The value whose first byte is at `at`.
value_at(t, at, depth) ==
    LET b == peek(t, at)
        inside == parse_whitespace(t, at + 1)
    IN IF b = 110
       THEN IF is_ident(t, at, <<110, 117, 108, 108>>)
            THEN Parsed(Null, at + 4) ELSE SyntaxError
       ELSE IF b = 116
       THEN IF is_ident(t, at, <<116, 114, 117, 101>>)
            THEN Parsed(Bool(TRUE), at + 4) ELSE SyntaxError
       ELSE IF b = 102
       THEN IF is_ident(t, at, <<102, 97, 108, 115, 101>>)
            THEN Parsed(Bool(FALSE), at + 5) ELSE SyntaxError
       ELSE IF b = 45 \/ is_digit(b) THEN parse_integer(t, at)
       ELSE IF b = 34
       THEN string_value(parse_str(t, [i |-> at + 1, s |-> <<>>]))
       ELSE IF b \in {91, 123} /\ depth = 1 THEN SyntaxError
       ELSE IF b = 91
       THEN IF peek(t, inside) = 93 THEN Parsed(Array(<<>>), inside + 1)
            ELSE parse_elements(t, at + 1, depth - 1, <<>>)
       ELSE IF b = 123
       THEN IF peek(t, inside) = 125 THEN Parsed(Object(<<>>), inside + 1)
            ELSE parse_members(t, at + 1, depth - 1, <<>>)
       ELSE SyntaxError

\* Deserializer::parse_value: the value that starts at i, after white space.
parse_value(t, i, depth) == value_at(t, parse_whitespace(t, i), depth)

\* Deserializer::end: nothing but the value.
end(t, r) ==
    IF r.ok /\ r.at = Len(t) + 1 THEN [ok |-> TRUE, value |-> r.value]
    ELSE [ok |-> FALSE, value |-> Null]

from_str(t) == end(t, parse_value(t, 1, RecursionLimit))

\* serde_json::from_slice::<Value>: the payload is one JSON value with white
\* space around it at the most.
from_slice(p) == from_str(trim_end(trim_start(p)))

\* unwrap_or_else(|_| json!({"raw": String::from_utf8_lossy(payload)}))
unwrap_or_raw(parsed, payload) ==
    IF parsed.ok THEN parsed.value
    ELSE Object(<<[key |-> <<114, 97, 119>>,
                   value |-> String(from_utf8_lossy(payload, 1))]>>)

\* .data(...): the parsed payload, or {"raw": String::from_utf8_lossy(payload)}.
data_of(payload) == unwrap_or_raw(from_slice(payload), payload)

hex_digit(d) == IF d < 10 THEN 48 + d ELSE 87 + d

\* format_escaped_str_contents: the quote and the backslash are escaped,
\* the control characters are written \b, \t, \n, \f, \r or \u00XX.
RECURSIVE json_escape(_)
json_escape(str) ==
    IF str = <<>> THEN <<>>
    ELSE LET b == Head(str)
         IN (IF b \in {34, 92} THEN <<92, b>>
             ELSE IF b = 8 THEN <<92, 98>>
             ELSE IF b = 9 THEN <<92, 116>>
             ELSE IF b = 10 THEN <<92, 110>>
             ELSE IF b = 12 THEN <<92, 102>>
             ELSE IF b = 13 THEN <<92, 114>>
             ELSE IF b < 32
             THEN <<92, 117, 48, 48, hex_digit(b \div 16), hex_digit(b % 16)>>
             ELSE <<b>>) \o json_escape(Tail(str))

\* The bytes of decimal digits.
digit_bytes(d) == [k \in 1..Len(d) |-> 48 + d[k]]

\* The decimal digits of a number from 0 on.
RECURSIVE digits_of_nat(_)
digits_of_nat(n) ==
    IF n < 10 THEN <<n>> ELSE Append(digits_of_nat(n \div 10), n % 10)

\* The text of a finite f64 above 0 from its shortest digits d and the power
\* of ten x of the first one: positional from 0.00001 up to 1e16, with a
\* point always; beyond, the digits and the exponent, which has its sign
\* either way and no zero before it.
f64_text(d, x) ==
    LET n == Len(d)
        e_digits == digits_of_nat(IF x < 0 THEN 0 - x ELSE x)
    IN IF x >= 0 /\ x < 16
       THEN IF x >= n - 1
            THEN digit_bytes(d) \o [k \in 1..(x - n + 1) |-> 48] \o <<46, 48>>
            ELSE digit_bytes(SubSeq(d, 1, x + 1)) \o <<46>>
                    \o digit_bytes(SubSeq(d, x + 2, n))
       ELSE IF x < 0 /\ x >= -5
       THEN <<48, 46>> \o [k \in 1..(0 - x - 1) |-> 48] \o digit_bytes(d)
       ELSE <<48 + d[1]>>
               \o (IF n > 1 THEN <<46>> \o digit_bytes(Tail(d)) ELSE <<>>)
               \o <<101, IF x < 0 THEN 45 ELSE 43>>
               \o digit_bytes(e_digits)

decimal_text(s) == f64_text(s.digits, s.exp)

\* The text of an f64.
write_f64(neg, q, e) ==
    (IF neg THEN <<45>> ELSE <<>>)
       \o (IF q = <<>> THEN <<48, 46, 48>>
           ELSE decimal_text(shortest(q, e)))

RECURSIVE to_vec(_)
RECURSIVE write_elements(_)
RECURSIVE write_members(_)

write_elements(items) ==
    IF items = <<>> THEN <<>>
    ELSE to_vec(Head(items))
            \o (IF Len(items) > 1 THEN <<44>> ELSE <<>>)
            \o write_elements(Tail(items))

write_members(members) ==
    IF members = <<>> THEN <<>>
    ELSE <<34>> \o json_escape(Head(members).key) \o <<34, 58>>
            \o to_vec(Head(members).value)
            \o (IF Len(members) > 1 THEN <<44>> ELSE <<>>)
            \o write_members(Tail(members))

\* serde_json::to_vec(event.data()): the compact JSON text of the value.
to_vec(value) ==
    IF value.form = "null" THEN <<110, 117, 108, 108>>
    ELSE IF value.form = "bool"
    THEN IF value.b THEN <<116, 114, 117, 101>> ELSE <<102, 97, 108, 115, 101>>
    ELSE IF value.form = "u64" THEN digit_bytes(value.digits)
    ELSE IF value.form = "i64" THEN <<45>> \o digit_bytes(value.digits)
    ELSE IF value.form = "f64" THEN write_f64(value.neg, value.q, value.e)
    ELSE IF value.form = "string" THEN <<34>> \o json_escape(value.s) \o <<34>>
    ELSE IF value.form = "array"
    THEN <<91>> \o write_elements(value.items) \o <<93>>
    ELSE <<123>> \o write_members(value.members) \o <<125>>

\* The data of the payloads of the model and the bytes read back from them,
\* computed once.
PayloadData == [p \in Payloads |-> data_of(p)] @@ <<>>
DataBytes == [v \in {PayloadData[p] : p \in Payloads} |-> to_vec(v)] @@ <<>>

\* What append hands to the store: EventsourcingDB gets an EventCandidate with
\* the derived type and the JSON data, the others the type and bytes as given.
encode(kind, evt) ==
    IF kind = "eventsourcingdb"
    THEN [event_type |-> ty_of(evt.event_type), data |-> PayloadData[evt.payload]]
    ELSE [event_type |-> evt.event_type,
          data |-> [form |-> "bytes", bytes |-> evt.payload]]

\* The ReadEvent built from a stored event.
decode(kind, offset, rec) ==
    [offset |-> offset, event_type |-> rec.event_type,
     payload |-> IF kind = "eventsourcingdb" THEN DataBytes[rec.data]
                 ELSE rec.data.bytes]

\* The events of the stream with their offsets, 0-based in store order.
numbered(store) == [i \in 1..Len(store) |-> [offset |-> i - 1, rec |-> store[i]]]

RECURSIVE from_offset_on(_, _)
from_offset_on(items, from) ==
    IF items = <<>> \/ Head(items).offset >= from THEN items
    ELSE from_offset_on(Tail(items), from)

first_n(items, n) == SubSeq(items, 1, IF n < Len(items) THEN n ELSE Len(items))

\* The stream the store is asked for: EventsourcingDB is asked for the whole
\* subject, Axon Server for the events from a sequence number on, KurrentDB
\* and UmaDB for those from a position on, at most max_count / limit of them.
store_items(kind, store, req) ==
    LET from == IF req.from_offset.some THEN req.from_offset.v ELSE 0
        tail == from_offset_on(numbered(store), from)
    IN IF kind = "eventsourcingdb" THEN numbered(store)
       ELSE IF kind = "axonserver" THEN tail
       ELSE IF kind = "kurrentdb"
            THEN first_n(tail, IF req.limit.some THEN req.limit.v ELSE 4096)
       ELSE IF req.limit.some THEN first_n(tail, req.limit.v) ELSE tail

\* The read loop over the stream's items, i of them consumed, where the store
\* yields an error instead of item err_after + 1 (when err_after is Some).
\* EventsourcingDB skips the items below from_offset; every adapter tests the
\* limit after the push; UmaDB breaks on an error item, the others return it.
RECURSIVE read_loop(_, _, _, _, _, _)
\* After item i + 1 was looked at, out2 being what was collected so far.
after_item(kind, items, i, err_after, req, skip, out2) ==
    IF ~skip /\ req.limit.some /\ Len(out2) >= req.limit.v
    THEN [ok |-> TRUE, out |-> out2, store_err |-> FALSE]
    ELSE read_loop(kind, items, i + 1, err_after, req, out2)
read_item(kind, items, i, err_after, req, out, it, skip) ==
    after_item(kind, items, i, err_after, req, skip,
               IF skip THEN out
               ELSE Append(out, decode(kind, it.offset, it.rec)))
read_loop(kind, items, i, err_after, req, out) ==
    IF err_after.some /\ err_after.v = i
    THEN IF kind = "umadb"
         THEN [ok |-> TRUE, out |-> out, store_err |-> TRUE]
         ELSE [ok |-> FALSE, out |-> <<>>, store_err |-> TRUE]
    ELSE IF i = Len(items)
    THEN [ok |-> TRUE, out |-> out, store_err |-> FALSE]
    ELSE read_item(kind, items, i, err_after, req, out, items[i + 1],
                   /\ kind = "eventsourcingdb"
                   /\ req.from_offset.some
                   /\ items[i + 1].offset < req.from_offset.v)

\* read, once the client is at hand and the request was accepted.  The Axon
\* Server client collects the whole stream before the adapter looks at it, so
\* an error anywhere in the stream fails the call.
read_stream(kind, store, req, err_after) ==
    IF kind = "axonserver" /\ err_after.some
    THEN [ok |-> FALSE, out |-> <<>>, store_err |-> TRUE]
    ELSE read_loop(kind, store_items(kind, store, req), 0,
                   IF kind = "axonserver" THEN None ELSE err_after, req, <<>>)

\* append(evt) on the adapter state a: without a client the call fails before
\* any request; else one request is sent and its error, if any, returned.
append(a, evt, store_ok) ==
    IF ~a.client
    THEN [a |-> a, ok |-> FALSE, requests |-> 0, store_err |-> FALSE]
    ELSE IF store_ok
    THEN [a |-> [a EXCEPT !.store = Append(@, encode(a.kind, evt)),
                          !.appended = Append(@, evt)],
          ok |-> TRUE, requests |-> 1, store_err |-> FALSE]
    ELSE [a |-> a, ok |-> FALSE, requests |-> 1, store_err |-> TRUE]

\* Variant: the loop of batch_append drops the result of each append,
\* `let _ = self.append(e).await;`.
RECURSIVE batch_append_ignoring(_, _, _, _)
batch_append_ignoring(a, events, outcomes, i) ==
    IF i > Len(events)
    THEN [a |-> a, ok |-> TRUE, attempted |-> Len(events)]
    ELSE batch_append_ignoring(append(a, events[i], outcomes[i]).a, events,
                               outcomes, i + 1)

\* Variant: the loop of batch_append stops one event short,
\* `for e in &events[..events.len() - 1]`.
RECURSIVE batch_append_short(_, _, _, _)
batch_append_short(a, events, outcomes, i) ==
    IF i >= Len(events)
    THEN [a |-> a, ok |-> TRUE, attempted |-> IF i > 1 THEN i - 1 ELSE 0]
    ELSE LET r == append(a, events[i], outcomes[i])
         IN IF r.ok THEN batch_append_short(r.a, events, outcomes, i + 1)
            ELSE [a |-> r.a, ok |-> FALSE, attempted |-> i]

\* The default batch_append, from its i-th event on:
\* for e in events { self.append(e).await?; } Ok(())
RECURSIVE batch_append(_, _, _, _)
\* The `?` on r, the result of the append of the i-th event.
after_append(r, events, outcomes, i) ==
    IF r.ok THEN batch_append(r.a, events, outcomes, i + 1)
    ELSE [a |-> r.a, ok |-> FALSE, attempted |-> i]
batch_append(a, events, outcomes, i) ==
    IF i > Len(events)
    THEN [a |-> a, ok |-> TRUE, attempted |-> Len(events)]
    ELSE after_append(append(a, events[i], outcomes[i]), events, outcomes, i)

\* A call of append.
AppendEvent ==
    /\ AdapterIdle
    /\ Len(ad.store) < MaxStore
    /\ \E evt \in Events, store_ok \in BOOLEAN :
          \E r \in {append(Begin(ad), evt, store_ok)} :
             ad' = Return(r.a, [Call("append", r.ok) EXCEPT
                                  !.requests = r.requests,
                                  !.store_err = r.store_err,
                                  !.events = <<evt>>,
                                  !.outcomes = <<store_ok>>,
                                  !.attempted = 1,
                                  !.before = ad.store])
    /\ Unchanged_harness

\* The batches handed to batch_append: up to as many events as the store of
\* the model still takes.
Batches(room) ==
    UNION {[1..n -> BatchEvents] : n \in 0..room}

\* A call of batch_append; outcomes[i] is the store's answer to the append of
\* the i-th event, should it be attempted.
BatchAppend ==
    /\ AdapterIdle
    /\ \E events \in Batches(MaxStore - Len(ad.store)) :
          \E outcomes \in [1..Len(events) -> BOOLEAN] :
             \E r \in {batch_append(Begin(ad), events, outcomes, 1)} :
                ad' = Return(r.a, [Call("batch_append", r.ok) EXCEPT
                                     !.events = events,
                                     !.outcomes = outcomes,
                                     !.attempted = r.attempted,
                                     !.before = ad.store])
    /\ Unchanged_harness

\* read: without a client the call fails before any request; the request
\* itself may fail; else the stream is read by the adapter's loop.
Read ==
    /\ AdapterIdle
    /\ \E req \in ReadRequests :
          LET a == Begin(ad)
              n == Len(store_items(ad.kind, ad.store, req))
          IN \/ /\ ~ad.client
                /\ ad' = Return(a, [Call("read", FALSE) EXCEPT !.req = req])
             \/ /\ ad.client
                /\ ad' = Return(a, [Call("read", FALSE) EXCEPT
                                      !.req = req, !.requests = 1,
                                      !.store_err = TRUE])
             \/ /\ ad.client
                /\ \E err_after \in {None} \cup {Some(k) : k \in 0..n} :
                      \E r \in {read_stream(ad.kind, ad.store, req,
                                              err_after)} :
                         ad' = Return(a, [Call("read", r.ok) EXCEPT
                                            !.req = req, !.requests = 1,
                                            !.store_err = r.store_err,
                                            !.out = r.out])
    /\ Unchanged_harness

AdapterInit ==
    /\ cli = NoCli
    /\ parse = NoParse
    /\ seed = 0
    /\ strategy = "adapter"
    /\ wl \in {w \in Workloads : w.writers = 0 /\ w.readers = 0
                                  /\ w.setup = NoSetup
                                  /\ w.streams.distribution = Zipf}
    /\ ad \in {NewAdapter(kind) : kind \in AdapterKinds}
    /\ container_manager = "None"
    /\ writer_adapters = <<>>
    /\ clients = 0
    /\ sampler = NoSampler
    /\ metrics = [kind |-> "None"]
    /\ phase = "adapter"
    /\ clock = 0
    /\ instants = Instants(0, 0)
    /\ task = [i \in Tasks |-> IdleTask]
    /\ samples = <<>>
    /\ samples_lock = 0
    /\ joined = {}
    /\ overall = EmptyBag
    /\ events_written = 0
    /\ events_read = 0
    /\ result = [kind |-> "none"]
    /\ done_ops = NoOps

AdapterNext ==
    \/ SetupBegin
    \/ Probe
    \/ SetupGivesUp
    \/ Teardown
    \/ Connect
    \/ AppendEvent
    \/ BatchAppend
    \/ Read

AdapterSpec == AdapterInit /\ [][AdapterNext]_vars

\* ------------------------------------------- AxonServerAdapter, shared
\* One AxonServerAdapter behind an Arc, used by two callers at once: one makes
\* the lifecycle calls (setup, connect, teardown), one after the other; the
\* other makes the operations (append, read, ping), one after the other.  All
\* methods take &self, and self.client is a tokio Mutex around an Option that
\* is locked only for the length of one statement.

AxonOps == {"append", "read", "ping"}

\* What the caller of the operations saw last: the operation, whether it
\* returned Ok, whether its error was "Axon Server client not connected", and
\* whether the adapter was torn down when the operation was called.
NoAxonCall == [op |-> "none", ok |-> TRUE, not_connected |-> FALSE,
               after_teardown |-> FALSE]

\* AxonServerAdapter::new().  torn_down holds from the return of a teardown
\* to the next call of connect or setup.  life is the caller of setup,
\* connect and teardown: step is where it stands in setup and its readiness
\* loop, in connect or in teardown, attempts the turns of the loop that have
\* ended.
AxonAdapter ==
    [kind |-> "axonserver", client |-> FALSE, container |-> "None",
     life |-> [pc |-> "idle", step |-> "none", attempts |-> 0, calls |-> 0],
     op |-> [pc |-> "idle", name |-> "none", calls |-> 0,
             after_teardown |-> FALSE],
     torn_down |-> FALSE,
     last |-> NoAxonCall]

LifeIdle == ad.life.pc = "idle" /\ ad.life.calls < MaxCalls

LifeAt(pc, step) == ad.life.pc = pc /\ ad.life.step = step

\* setup is called: AxonServer::default().start() begins, and the adapter is
\* no longer one that was torn down and left alone.
AxonSetupBegin ==
    /\ LifeIdle
    /\ ad' = [ad EXCEPT !.life.calls = @ + 1, !.torn_down = FALSE,
                        !.life.pc = "setup", !.life.step = "start",
                        !.life.attempts = 0]
    /\ Unchanged_harness

\* start().await and get_host_port_ipv4(..).await return: an error of either
\* is returned through `?`, a success goes on to the lock of self.container.
AxonSetupStart ==
    /\ LifeAt("setup", "start")
    /\ \/ ad' = [ad EXCEPT !.life.pc = "idle", !.life.step = "none"]
       \/ ad' = [ad EXCEPT !.life.step = "store"]
    /\ Unchanged_harness

\* *container_guard = Some(container); drop(container_guard); the readiness
\* loop begins.
AxonSetupStore ==
    /\ LifeAt("setup", "store")
    /\ ad' = [ad EXCEPT !.container = "running", !.life.pc = "probing",
                        !.life.step = "connect"]
    /\ Unchanged_harness

\* A turn of the readiness loop begins: AxonServerClient::connect returns.
\* A client is stored in self.client and the lock released before the ping;
\* without one the turn ends in the sleep.
AxonProbeConnect ==
    /\ LifeAt("probing", "connect")
    /\ budget_left(ad.life.attempts)
    /\ \/ ad' = [ad EXCEPT !.client = TRUE, !.life.step = "ping"]
       \/ ad' = [ad EXCEPT !.life.step = "sleep", !.life.attempts = @ + 1]
    /\ Unchanged_harness

\* self.ping() of the turn begins: the client is cloned out of the slot
\* under the lock, or the ping fails as not connected.
AxonProbePing ==
    /\ LifeAt("probing", "ping")
    /\ ad' = IF ad.client THEN [ad EXCEPT !.life.step = "get_head"]
             ELSE [ad EXCEPT !.life.step = "sleep", !.life.attempts = @ + 1]
    /\ Unchanged_harness

\* client.get_head() of the ping returns: an error ends the turn in the
\* sleep, a success goes on to the write-back.
AxonProbeGetHead ==
    /\ LifeAt("probing", "get_head")
    /\ \/ ad' = [ad EXCEPT !.life.step = "write_back"]
       \/ ad' = [ad EXCEPT !.life.step = "sleep", !.life.attempts = @ + 1]
    /\ Unchanged_harness

\* The ping stores its client again and returns Ok, and setup returns Ok(()).
AxonProbeWriteBack ==
    /\ LifeAt("probing", "write_back")
    /\ ad' = [ad EXCEPT !.client = TRUE, !.life.pc = "idle",
                        !.life.step = "none", !.life.attempts = @ + 1]
    /\ Unchanged_harness

\* tokio::time::sleep(Duration::from_secs(1)) of a failed turn is over.
AxonProbeSleep ==
    /\ LifeAt("probing", "sleep")
    /\ ad' = [ad EXCEPT !.life.step = "connect"]
    /\ Unchanged_harness

\* The readiness loop has run out: setup bails.
AxonSetupGivesUp ==
    /\ LifeAt("probing", "connect")
    /\ ~budget_left(ad.life.attempts)
    /\ ad' = [ad EXCEPT !.life.pc = "idle", !.life.step = "none"]
    /\ Unchanged_harness

\* connect is called: the URI is chosen and AxonServerClient::connect
\* begins.
AxonConnect ==
    /\ LifeIdle
    /\ ad' = [ad EXCEPT !.life.calls = @ + 1, !.torn_down = FALSE,
                        !.life.pc = "connecting", !.life.step = "connect"]
    /\ Unchanged_harness

\* AxonServerClient::connect(uri).await returns: an error is returned through
\* `?`, a client goes on to the lock of self.client.
AxonConnectReturn ==
    /\ LifeAt("connecting", "connect")
    /\ \/ ad' = [ad EXCEPT !.life.pc = "idle", !.life.step = "none"]
       \/ ad' = [ad EXCEPT !.life.step = "store"]
    /\ Unchanged_harness

\* let mut guard = self.client.lock().await; *guard = Some(client); Ok(())
AxonConnectStore ==
    /\ LifeAt("connecting", "store")
    /\ ad' = [ad EXCEPT !.client = TRUE, !.life.pc = "idle",
                        !.life.step = "none"]
    /\ Unchanged_harness

\* teardown, its first block: { let mut guard = self.client.lock().await;
\* *guard = None; }
AxonTeardownClient ==
    /\ LifeIdle
    /\ ad' = [ad EXCEPT !.life.calls = @ + 1, !.life.pc = "stopping",
                        !.life.step = "take", !.client = FALSE]
    /\ Unchanged_harness

\* teardown, its second block: guard.take() under the lock of
\* self.container.  Without a container teardown returns Ok(()).
AxonTeardownTake ==
    /\ LifeAt("stopping", "take")
    /\ ad' = IF ad.container = "None"
             THEN [ad EXCEPT !.life.pc = "idle", !.life.step = "none",
                             !.torn_down = TRUE]
             ELSE [ad EXCEPT !.life.step = "stop", !.container = "None"]
    /\ Unchanged_harness

\* c.stop().await of the container taken returns, and teardown with it: Ok
\* or the stop's error.
AxonTeardownStop ==
    /\ LifeAt("stopping", "stop")
    /\ ad' = [ad EXCEPT !.life.pc = "idle", !.life.step = "none",
                        !.torn_down = TRUE]
    /\ Unchanged_harness

\* append, read and ping begin alike: the client is cloned out of the slot
\* under the lock, or the call fails with "Axon Server client not connected".
AxonOpBegin ==
    /\ ad.op.pc = "idle"
    /\ ad.op.calls < MaxCalls
    /\ \E name \in AxonOps :
          LET called == [ad EXCEPT !.op.calls = @ + 1, !.op.name = name,
                                   !.op.after_teardown = ad.torn_down]
          IN ad' = IF ad.client
                   THEN [called EXCEPT !.op.pc = "called"]
                   ELSE [called EXCEPT
                           !.last = [op |-> name, ok |-> FALSE,
                                     not_connected |-> TRUE,
                                     after_teardown |-> ad.torn_down]]
    /\ Unchanged_harness

\* client.append / client.source / client.get_head returns: an error is
\* returned through `?`, a success goes on to the write-back.
AxonOpCall ==
    /\ ad.op.pc = "called"
    /\ \/ ad' = [ad EXCEPT !.op.pc = "writeback"]
       \/ ad' = [ad EXCEPT
                    !.op.pc = "idle",
                    !.last = [op |-> ad.op.name, ok |-> FALSE,
                              not_connected |-> FALSE,
                              after_teardown |-> ad.op.after_teardown]]
    /\ Unchanged_harness

\* let mut guard = self.client.lock().await; *guard = Some(client); Ok(..)
AxonOpWriteBack ==
    /\ ad.op.pc = "writeback"
    /\ ad' = [ad EXCEPT
                 !.client = TRUE,
                 !.op.pc = "idle",
                 !.last = [op |-> ad.op.name, ok |-> TRUE,
                           not_connected |-> FALSE,
                           after_teardown |-> ad.op.after_teardown]]
    /\ Unchanged_harness

AxonInit ==
    /\ cli = NoCli
    /\ parse = NoParse
    /\ seed = 0
    /\ strategy = "adapter"
    /\ wl \in {w \in Workloads : w.writers = 0 /\ w.readers = 0
                                  /\ w.setup = NoSetup
                                  /\ w.streams.distribution = Zipf}
    /\ ad = AxonAdapter
    /\ container_manager = "None"
    /\ writer_adapters = <<>>
    /\ clients = 0
    /\ sampler = NoSampler
    /\ metrics = [kind |-> "None"]
    /\ phase = "adapter"
    /\ clock = 0
    /\ instants = Instants(0, 0)
    /\ task = [i \in Tasks |-> IdleTask]
    /\ samples = <<>>
    /\ samples_lock = 0
    /\ joined = {}
    /\ overall = EmptyBag
    /\ events_written = 0
    /\ events_read = 0
    /\ result = [kind |-> "none"]
    /\ done_ops = NoOps

AxonNext ==
    \/ AxonSetupBegin
    \/ AxonSetupStart
    \/ AxonSetupStore
    \/ AxonProbeConnect
    \/ AxonProbePing
    \/ AxonProbeGetHead
    \/ AxonProbeWriteBack
    \/ AxonProbeSleep
    \/ AxonSetupGivesUp
    \/ AxonConnect
    \/ AxonConnectReturn
    \/ AxonConnectStore
    \/ AxonTeardownClient
    \/ AxonTeardownTake
    \/ AxonTeardownStop
    \/ AxonOpBegin
    \/ AxonOpCall
    \/ AxonOpWriteBack

AxonSpec == AxonInit /\ [][AxonNext]_vars

\* ------------------------------------------------------------------ claims

Returned == phase = "returned" /\ result.kind = "Ok"

\* C1: every RawSample's capture time t_ms lies inside the measurement window
\* [measurement_start, measurement_end], under any interleaving.
C1_SampleTimeInWindow ==
    \A k \in 1..Len(samples) :
        /\ measurement_start <= samples[k].t_ms
        /\ samples[k].t_ms <= measurement_end

\* C2 (as claimed): after a completed run of either strategy the total count of
\* the merged histogram equals events_written + events_read.  (Stated for the
\* runs in which every operation returned inside the window, so that the
\* counting of warmup and cooldown reads, C5, plays no part.)
C2_HistCountEqualsEvents ==
    (Returned /\ done_ops.in_window = done_ops.issued) =>
        hist_len(result.overall) = result.events_written + result.events_read

\* C2 (amended): after a completed run of either strategy the histogram count
\* is the number of operations that returned inside the window, the failed
\* ones included.  After a ConcurrentWriters run events_written is that same
\* number and events_read is 0, so that the count equals events_written +
\* events_read.  After a ConcurrentReaders run events_written is 0 and
\* events_read is the number of events that the successful reads of the whole
\* run returned, inside the window and outside it.
C2_HistCountPerStrategy ==
    Returned =>
        /\ hist_len(result.overall) = done_ops.in_window
        /\ strategy = "writers" =>
              /\ result.events_written = done_ops.in_window
              /\ result.events_read = 0
              /\ hist_len(result.overall)
                    = result.events_written + result.events_read
        /\ strategy = "readers" =>
              /\ result.events_written = 0
              /\ result.events_read
                    = done_ops.events_in_window + done_ops.events_outside

\* A readers run in which reads returned events inside the window and outside
\* it and a read failed inside the window.
C2_Witness ==
    /\ Returned
    /\ strategy = "readers"
    /\ hist_len(result.overall) >= 2
    /\ done_ops.failed_in_window >= 1
    /\ done_ops.events_in_window > 0
    /\ done_ops.events_outside > 0
    /\ result.events_read # hist_len(result.overall)

\* A writers run in which an append failed and another succeeded inside the
\* window.
C2_WritersWitness ==
    /\ Returned
    /\ strategy = "writers"
    /\ hist_len(result.overall) >= 2
    /\ done_ops.failed_in_window >= 1
    /\ done_ops.failed_in_window < done_ops.in_window

\* C3: in ConcurrentWriters a failed append does not count toward
\* events_written: events_written is the number of appends that succeeded
\* (among those the run counts, the ones returned inside the window).
C3_WrittenCountsSuccessesOnly ==
    (Returned /\ strategy = "writers") =>
        result.events_written = done_ops.in_window - done_ops.failed_in_window

\* C4 (as claimed): for every run of either strategy,
\* events_written + events_read <= histogram count
\*                               <= events_written + events_read + failed_ops.
\* (Stated, like C2, for the runs whose operations all returned inside the
\* window.)
C4_HistCountBounds ==
    (Returned /\ done_ops.in_window = done_ops.issued) =>
        LET events == result.events_written + result.events_read
        IN /\ events <= hist_len(result.overall)
           /\ hist_len(result.overall) <= events + done_ops.failed

\* C4 (amended): the two bounds hold for every ConcurrentWriters run; for a
\* ConcurrentReaders run the histogram count lies between the number of failed
\* reads inside the window and the number of reads issued.
C4_HistCountBoundsPerStrategy ==
    Returned =>
        /\ strategy = "writers" =>
              LET events == result.events_written + result.events_read
              IN /\ events <= hist_len(result.overall)
                 /\ hist_len(result.overall) <= events + done_ops.failed
        /\ strategy = "readers" =>
              /\ done_ops.failed_in_window <= hist_len(result.overall)
              /\ hist_len(result.overall) <= done_ops.issued

C4_Witness ==
    /\ Returned
    /\ strategy = "writers"
    /\ done_ops.failed > done_ops.failed_in_window
    /\ hist_len(result.overall) >= 1
    /\ Cardinality(joined) >= 2

\* C5: the reported totals count only operations captured inside the window:
\* nothing that returned during warmup or cooldown adds to events_read or
\* events_written.
C5_TotalsCountWindowOnly ==
    Returned =>
        /\ result.events_read <= done_ops.events_in_window
        /\ result.events_written <= done_ops.in_window

\* C6: every RawSample has latency_us >= 1.
C6_SampleLatencyAtLeastOne ==
    \A k \in 1..Len(samples) : samples[k].latency_us >= 1

\* C7: each task holds its own client instance, made by its own factory.create
\* call: no two tasks of a run hold the same instance.
C7_OwnClientPerTask ==
    /\ \A i, j \in Spawned : i # j => task[i].adapter # task[j].adapter
    /\ \A i \in Spawned : task[i].adapter \in 1..clients
    /\ Cardinality(Spawned) <= clients

C7_Witness ==
    /\ strategy = "runner"
    /\ \E i, j \in Spawned : /\ i # j
                              /\ task[i].pc = "op"
                              /\ task[j].pc = "op"

\* C8: with workload.setup present, before any task starts every stream-i,
\* i in [0, num_streams), holds at least ceil(events_to_prepopulate /
\* num_streams) events, appended by the setup phase.
C8_SetupPrepopulates ==
    (wl.setup.present /\ Spawned # {}) =>
        LET num_streams == wl.setup.prepopulate_streams
            events_per_stream ==
                (wl.setup.events_to_prepopulate + num_streams - 1)
                    \div num_streams
        IN \A s \in 0..(num_streams - 1) :
              CopiesIn(s, done_ops.appended) >= events_per_stream

\* C9: the container's start completes before any client is created or any
\* operation is issued; stop is called only after every task and the stats
\* sampler have terminated, and run_workload is over once it has been called,
\* so no operation is issued after it.
C9_LifecycleOrder ==
    /\ container_manager \in {"created", "start_failed"} =>
          /\ clients = 0
          /\ done_ops.issued = 0
    /\ StopCalled =>
          /\ \A i \in Spawned : task[i].pc = "done"
          /\ sampler.pc \in {"none", "done"}
          /\ phase = "returned"

C9_Witness ==
    /\ container_manager = "stopped"
    /\ Cardinality(Spawned) >= 2
    /\ done_ops.issued >= 2
    /\ Len(sampler.cpu_samples) >= 1
    /\ result.kind = "Ok"

\* C10: when the container's stop fails after the RunMetrics have been built,
\* run_workload still returns the metrics.
C10_StopFailureKeepsMetrics ==
    (phase = "returned" /\ metrics.kind = "Some"
        /\ container_manager = "stop_failed") =>
        result.kind = "Ok"

\* C11: the step in which factory.create fails ends run_workload with an
\* error, calls stop on the container when one was started, and leaves no task
\* and no stats sampler launched.
C11_CreateFailureAborts ==
    [][CreateWriterFails =>
          /\ phase' = "returned"
          /\ result'.kind = "Err"
          /\ container_manager = "started" => StopCalled'
          /\ \A i \in Tasks : task'[i].pc = "none"
          /\ sampler'.pc = "none"]_vars

C11_Witness ==
    /\ phase = "returned"
    /\ result.kind = "Err"
    /\ result.at = "create"
    /\ container_manager = "stopped"
    /\ Len(writer_adapters) >= 1
    /\ Len(writer_adapters) < wl.writers

\* C12: when the container manager's start fails, run_workload returns an
\* error with no client created and no task launched, and stop has been called
\* on the partially-started container.
C12_StartFailureAborts ==
    (phase = "returned" /\ result.kind = "Err" /\ result.at = "start") =>
        /\ clients = 0
        /\ \A i \in Tasks : task[i].pc = "none"
        /\ sampler.pc = "none"
        /\ StopCalled

\* C13: the readiness loop of setup, whichever calls came before it, never
\* makes more than 60 probes, makes none after a successful one, sleeps after
\* every failed one, and setup returns the readiness failure exactly when all
\* 60 probes failed.
C13_ProbeBudget ==
    ad.kind # "none" =>
        /\ ad.attempts <= ProbeBudget
        /\ ad.pc = "probing" => ad.succeeded = 0 /\ ad.sleeps = ad.attempts
        /\ (ad.pc = "idle" /\ ad.last.op = "setup") =>
              /\ ad.last.ok <=> ad.succeeded = 1
              /\ ad.last.ok => ad.sleeps = ad.attempts - 1
              /\ (~ad.last.ok /\ ad.attempts > 0) =>
                    ad.attempts = ProbeBudget /\ ad.sleeps = ProbeBudget
              /\ (ad.attempts = ProbeBudget /\ ad.succeeded = 0) => ~ad.last.ok

C13_Witness ==
    /\ ad.kind = "umadb"
    /\ ad.pc = "idle"
    /\ ad.last.op = "setup"
    /\ ~ad.last.ok
    /\ ad.attempts = ProbeBudget
    /\ ad.client
    /\ ad.prev.op = "teardown"
    /\ ad.calls = MaxCalls

\* C14: a teardown that follows a successful teardown returns Ok, invokes the
\* container's stop zero times and leaves the adapter with no client and no
\* container.
C14_TeardownIdempotent ==
    (ad.kind # "none" /\ ad.pc = "idle" /\ ad.last.op = "teardown"
        /\ ad.prev.op = "teardown" /\ ad.prev.ok) =>
        /\ ad.last.ok
        /\ ad.last.stops = 0
        /\ ~ad.client
        /\ ad.container = "None"

C14_Witness ==
    /\ ad.kind # "none"
    /\ ad.pc = "idle"
    /\ ad.last.op = "teardown"
    /\ ad.last.ok
    /\ ad.prev.op = "teardown"
    /\ ad.prev.ok
    /\ ad.stop_calls = 1

\* C15: an append or read to which the store answered with an error, at the
\* request or at any item of the read stream, returns a failure; no call sends
\* more than one request, and a call that returns Ok has sent exactly one.
C15_StoreErrorFailsCall ==
    (ad.kind # "none" /\ ad.pc = "idle" /\ ad.last.op \in {"append", "read"}) =>
        /\ ad.last.store_err => ~ad.last.ok
        /\ ad.last.requests <= 1
        /\ ad.last.ok => ad.last.requests = 1

\* C16: a read that succeeds returns, in store order, exactly the first
\* min(limit, matching) events whose offset is >= from_offset: every returned
\* offset is >= from_offset and at most limit events are returned, for limit 0
\* too.
C16_ReadWindow ==
    (ad.kind # "none" /\ ad.pc = "idle" /\ ad.last.op = "read" /\ ad.last.ok
        /\ ~ad.last.store_err) =>
        LET req == ad.last.req
            out == ad.last.out
            from == IF req.from_offset.some THEN req.from_offset.v ELSE 0
            matching == SelectSeq(numbered(ad.store),
                                  LAMBDA it : it.offset >= from)
            n == IF req.limit.some /\ req.limit.v < Len(matching)
                 THEN req.limit.v ELSE Len(matching)
        IN /\ Len(out) = n
           /\ \A i \in 1..Len(out) :
                 i <= Len(matching) => out[i].offset = matching[i].offset

\* C17: after one event was appended to the empty stream, a read of the whole
\* stream returns exactly one event, with the event_type and the payload that
\* were appended.
C17_RoundTrip ==
    (ad.kind # "none" /\ ad.pc = "idle" /\ ad.last.op = "read" /\ ad.last.ok
        /\ ~ad.last.store_err /\ Len(ad.appended) = 1
        /\ ad.last.req = NoRequest) =>
        /\ Len(ad.last.out) = 1
        /\ ad.last.out[1].event_type = ad.appended[1].event_type
        /\ ad.last.out[1].payload = ad.appended[1].payload

\* C18: the default batch_append appends the events in order and stops at the
\* first append that fails: it returns Ok exactly when no append failed; on a
\* failure the events before the failing one are in the store, in order, and
\* the failing one is the last one attempted.
C18_BatchStopsAtFirstFailure ==
    (ad.kind # "none" /\ ad.pc = "idle" /\ ad.last.op = "batch_append") =>
        LET events == ad.last.events
            failing == {i \in 1..Len(events) :
                          ~ad.client \/ ~ad.last.outcomes[i]}
            stored(n) == ad.last.before
                            \o [i \in 1..n |-> encode(ad.kind, events[i])]
        IN /\ ad.last.ok <=> failing = {}
           /\ failing = {} =>
                 /\ ad.last.attempted = Len(events)
                 /\ ad.store = stored(Len(events))
           /\ \A f \in failing :
                 (\A g \in failing : f <= g) =>
                     /\ ad.last.attempted = f
                     /\ ad.store = stored(f - 1)

C18_Witness ==
    /\ ad.kind # "none"
    /\ ad.pc = "idle"
    /\ ad.last.op = "batch_append"
    /\ ~ad.last.ok
    /\ Len(ad.last.events) >= 2
    /\ ad.last.attempted = 2
    /\ Len(ad.store) = Len(ad.last.before) + 1

\* C19: batch_append of a single event leaves the store as append of that
\* event does from the same adapter and store state, and returns Ok or a
\* failure as append does.
C19_SingletonBatchIsAppend ==
    (ad.kind # "none" /\ ad.pc = "idle" /\ ad.last.op = "batch_append"
        /\ Len(ad.last.events) = 1) =>
        LET r == append([ad EXCEPT !.store = ad.last.before],
                        ad.last.events[1], ad.last.outcomes[1])
        IN /\ ad.last.ok = r.ok
           /\ ad.store = r.a.store

C19_Witness ==
    /\ ad.kind = "eventsourcingdb"
    /\ ad.pc = "idle"
    /\ ad.last.op = "batch_append"
    /\ Len(ad.last.events) = 1
    /\ ad.last.ok
    /\ Len(ad.last.before) = 1
    /\ Len(ad.store) = 2

\* C20: a task never begins an operation at an instant >= end_at, and a task
\* that has terminated has done so by observing now() >= end_at at its loop
\* test: no task ends in any other way, a failed operation or a panic included.
C20_TasksEndOnlyAtDeadline ==
    \A i \in Spawned :
        /\ task[i].pc = "op" => task[i].t0 < end_at
        /\ task[i].pc \notin {"loop", "op", "lock", "push"} =>
              /\ task[i].pc = "done"
              /\ clock >= end_at

\* ------------------------------------------------------- parse_memory_size
\* One call of parse_memory_size on a text: what stands for the number,
\* possibly a space, a suffix, and possibly white space around the whole.

Numerals ==
    {Numeral(<<49, 46, 53>>, TRUE, FALSE, <<15>>, -1),  \* "1.5"
     Numeral(<<53, 49, 50>>, TRUE, FALSE, <<512>>, 0),  \* "512"
     Numeral(<<49, 48, 50, 52>>, TRUE, FALSE, <<1024>>, 0),  \* "1024"
     Numeral(<<55>>, TRUE, FALSE, <<7>>, 0),  \* "7"
     Numeral(<<49, 46, 48>>, TRUE, FALSE, <<10>>, -1),  \* "1.0"
     Numeral(<<48>>, TRUE, FALSE, <<>>, 0),  \* "0"
     Numeral(<<49, 50, 51, 46, 52>>, TRUE, FALSE, <<1234>>, -1),  \* "123.4"
     Numeral(<<48, 46, 55, 53>>, TRUE, FALSE, <<75>>, -2),  \* "0.75"
     Numeral(<<49, 53, 101, 45, 49>>, TRUE, FALSE, <<15>>, -1),  \* "15e-1"
     Numeral(<<46, 50, 69, 50>>, TRUE, FALSE, <<2>>, 1),  \* ".2E2"
     Numeral(<<51, 46, 53>>, TRUE, FALSE, <<35>>, -1),  \* "3.5"
     Numeral(<<52, 49, 57, 52, 51, 48, 52>>, TRUE, FALSE, <<4304, 419>>, 0),  \* "4194304"
     Numeral(<<48, 46, 57, 57, 57, 57, 57, 57, 57, 57, 57, 57, 57, 57, 57, 57, 57, 57, 57>>, TRUE, FALSE, <<9999, 9999, 9999, 9999, 9>>, -17),
     Numeral(<<49, 101, 50, 48>>, TRUE, FALSE, <<1>>, 20),  \* "1e20"
     Numeral(<<45, 49>>, TRUE, TRUE, <<1>>, 0),  \* "-1"
     NotNumeral(<<105, 110, 102>>),  \* "inf"
     NotNumeral(<<49, 101>>),  \* "1e"
     NotNumeral(<<>>),  \* ""
     NotNumeral(<<46>>),  \* "."
     NotNumeral(<<49, 46, 50, 46, 51>>),  \* "1.2.3"
     NotNumeral(<<45, 45>>)}

Gaps == {<<>>, <<32>>}

SuffixTexts ==
    {GiB, MiB, KiB, B, <<88, 66>>, <<84, 105, 66>>, <<71, 66>>,
     <<107, 66>>, <<77, 105, 98>>, <<98>>, <<>>}

MemoryTexts ==
    [number : Numerals, gap : Gaps, suffix : SuffixTexts, padded : BOOLEAN]

text_of(t) ==
    LET inner == t.number.text \o t.gap \o t.suffix
    IN IF t.padded THEN <<32>> \o inner \o <<10>> ELSE inner

Unchanged_run ==
    UNCHANGED <<cli, seed, strategy, wl, phase, clock, instants, task, samples,
                samples_lock, joined, overall, events_written, events_read,
                result, done_ops, runvars>>

\* parse_memory_size(s) returns.
ParseMemorySize ==
    /\ parse.pc = "call"
    /\ parse' = [parse EXCEPT !.pc = "returned",
                              !.out = parse_memory_size(parse.s)]
    /\ Unchanged_run

ParseInit ==
    /\ cli = NoCli
    /\ parse \in {[pc |-> "call", number |-> t.number, gap |-> t.gap,
                    suffix |-> t.suffix, s |-> text_of(t), out |-> ParseErr] :
                      t \in MemoryTexts}
    /\ seed = 0
    /\ strategy = "parse"
    /\ wl \in {w \in Workloads : w.writers = 0 /\ w.readers = 0
                                  /\ w.setup = NoSetup
                                  /\ w.streams.distribution = Zipf}
    /\ NoRunner
    /\ phase = "parse"
    /\ clock = 0
    /\ instants = Instants(0, 0)
    /\ task = [i \in Tasks |-> IdleTask]
    /\ samples = <<>>
    /\ samples_lock = 0
    /\ joined = {}
    /\ overall = EmptyBag
    /\ events_written = 0
    /\ events_read = 0
    /\ result = [kind |-> "none"]
    /\ done_ops = NoOps

ParseNext == ParseMemorySize

ParseSpec == ParseInit /\ [][ParseNext]_vars

\* ------------------------------------------------------------ main, run
\* The run command of the CLI: esbs run --store S --workflow F --workload P.
\* run_workload is one step here, with each of its outcomes.

dummy == <<100, 117, 109, 109, 121>>  \* "dummy"
umadb == <<117, 109, 97, 100, 98>>  \* "umadb"
UmaDB == <<85, 109, 97, 68, 66>>  \* "UmaDB"
kurrentdb == <<107, 117, 114, 114, 101, 110, 116, 100, 98>>  \* "kurrentdb"
KurrentDB == <<75, 117, 114, 114, 101, 110, 116, 68, 66>>  \* "KurrentDB"
\* "axonserver"
axonserver == <<97, 120, 111, 110, 115, 101, 114, 118, 101, 114>>
\* "eventsourcingdb"
eventsourcingdb == <<101, 118, 101, 110, 116, 115, 111, 117, 114, 99, 105, 110, 103, 100, 98>>
nostore == <<110, 111, 115, 116, 111, 114, 101>>  \* "nostore"
\* U+212A, the Kelvin sign, and "urrentdb": its lower case is "kurrentdb".
KelvinDB == <<8490, 117, 114, 114, 101, 110, 116, 100, 98>>
\* "concurrent_writers"
concurrent_writers ==
    <<99, 111, 110, 99, 117, 114, 114, 101, 110, 116, 95, 119, 114, 105, 116, 101, 114, 115>>
\* "Concurrent_Readers"
Concurrent_Readers ==
    <<67, 111, 110, 99, 117, 114, 114, 101, 110, 116, 95, 82, 101, 97, 100, 101, 114, 115>>
\* "concurrent_readers"
concurrent_readers ==
    <<99, 111, 110, 99, 117, 114, 114, 101, 110, 116, 95, 114, 101, 97, 100, 101, 114, 115>>
\* "noworkflow"
noworkflow == <<110, 111, 119, 111, 114, 107, 102, 108, 111, 119>>

\* What --store and --workflow are given.
Stores == {umadb, UmaDB, KurrentDB, KelvinDB, nostore}
WorkflowNames == {concurrent_writers, Concurrent_Readers, noworkflow}

\* The names the factories are registered under.
adapter_factories == {dummy, umadb, kurrentdb, axonserver, eventsourcingdb}
workflow_factories == {concurrent_writers, concurrent_readers}

\* What run_workload gives the command: metrics with some samples, an error,
\* or a panic.
RunResults == {[kind |-> "Ok", samples |-> 0], [kind |-> "Ok", samples |-> 2],
               [kind |-> "Err", samples |-> 0],
               [kind |-> "panic", samples |-> 0]}

Unchanged_cli ==
    UNCHANGED <<parse, seed, strategy, wl, phase, clock, instants, task,
                samples, samples_lock, joined, overall, events_written,
                events_read, result, done_ops, runvars>>

\* A `?` of main on an error: the process exits with it.
Exit(status) == [cli EXCEPT !.pc = "exit", !.exit = status]

\* let wl = WorkloadFile::load(&workload)?; the names are lowercased.
CliLoad ==
    /\ cli.pc = "load"
    /\ \/ cli' = Exit("Err")
       \/ cli' = [cli EXCEPT !.pc = "workload_dir",
                             !.adapter_name = to_lowercase(cli.store)]
    /\ Unchanged_cli

\* fs::create_dir_all(&workload_dir)?: <output>/<workload stem>.
CliCreateWorkloadDir ==
    /\ cli.pc = "workload_dir"
    /\ \/ cli' = Exit("Err")
       \/ cli' = [cli EXCEPT !.pc = "run_dir", !.workload_dir = TRUE]
    /\ Unchanged_cli

\* The run directory's name, and fs::create_dir_all(&run_dir)? under the
\* workload directory.
CliCreateRunDir ==
    /\ cli.pc = "run_dir"
    /\ \/ cli' = Exit("Err")
       \/ cli' = [cli EXCEPT !.pc = "find",
                             !.run_dir = run_dir_name(cli.adapter_name, wl)]
    /\ Unchanged_cli

\* The adapter factory and the workflow factory are looked up by name, the
\* strategy and the runtime are created: each can fail.
CliFind ==
    /\ cli.pc = "find"
    /\ \/ cli' = Exit("Err")
       \/ /\ cli.adapter_name \in adapter_factories
          /\ to_lowercase(cli.workflow) \in workflow_factories
          /\ cli' = [cli EXCEPT !.pc = "run"]
    /\ Unchanged_cli

\* Variant: the command goes on to write its files whatever run_workload
\* returned.
CliRunIgnoringError ==
    /\ cli.pc = "run"
    /\ \E r \in RunResults :
          cli' = IF r.kind = "panic"
                 THEN [Exit("panic") EXCEPT !.run = r.kind]
                 ELSE [cli EXCEPT !.pc = "summary", !.run = r.kind,
                                  !.samples = r.samples]
    /\ Unchanged_cli

\* let result = rt.block_on(run_workload(..))?: an error ends the command, a
\* panic the process.
CliRun ==
    /\ cli.pc = "run"
    /\ \E r \in RunResults :
          cli' = IF r.kind = "Ok"
                 THEN [cli EXCEPT !.pc = "summary", !.run = r.kind,
                                  !.samples = r.samples]
                 ELSE [Exit(r.kind) EXCEPT !.run = r.kind]
    /\ Unchanged_cli

\* fs::write(path, ..)? of one of the three files, then the next one.
CliWrite(at, file, next) ==
    /\ cli.pc = at
    /\ \/ cli' = Exit("Err")
       \/ cli' = [cli EXCEPT !.pc = next, !.written = @ \cup {file}]
    /\ Unchanged_cli

CliWriteSummary == CliWrite("summary", "summary.json", "samples")

CliWriteSamples == CliWrite("samples", "samples.jsonl", "meta")

CliWriteMeta == CliWrite("meta", "run.meta.json", "done")

\* println!("Run complete. ..."); Ok(()). println! panics when standard output
\* cannot be written (a closed pipe): the process ends with the panic's
\* status, the three files written.
CliDone ==
    /\ cli.pc = "done"
    /\ \/ cli' = Exit("Ok")
       \/ cli' = Exit("panic")
    /\ Unchanged_cli

CliWorkloads ==
    {w \in Workloads : w.setup = NoSetup /\ w.streams.distribution = Zipf}

CliInit ==
    /\ cli \in {[NoCli EXCEPT !.pc = "load", !.store = st, !.workflow = wf] :
                   st \in Stores, wf \in WorkflowNames}
    /\ parse = NoParse
    /\ seed = SmokeSeed
    /\ strategy = "cli"
    /\ wl \in CliWorkloads
    /\ NoRunner
    /\ phase = "cli"
    /\ clock = 0
    /\ instants = Instants(0, 0)
    /\ task = [i \in Tasks |-> IdleTask]
    /\ samples = <<>>
    /\ samples_lock = 0
    /\ joined = {}
    /\ overall = EmptyBag
    /\ events_written = 0
    /\ events_read = 0
    /\ result = [kind |-> "none"]
    /\ done_ops = NoOps

CliNext ==
    \/ CliLoad
    \/ CliCreateWorkloadDir
    \/ CliCreateRunDir
    \/ CliFind
    \/ CliRun
    \/ CliWriteSummary
    \/ CliWriteSamples
    \/ CliWriteMeta
    \/ CliDone

CliSpec == CliInit /\ [][CliNext]_vars

\* C21: the stream index of the k-th operation of task i (i = 0..N-1) is the
\* k-th draw of a generator seeded with seed + i, a function of the seed, the
\* task index, the distribution and unique_streams alone: whatever the
\* operations' latencies and outcomes and the interleaving of the tasks were,
\* two runs with the same four inputs pick the same streams.
C21_StreamSequenceDeterministic ==
    \A i \in Tasks :
        InIteration(i) =>
            LET d == stream_at(wl.streams, seed_from_u64(seed + (i - 1)),
                               task[i].issued)
            IN /\ task[i].stream_idx = d.stream_idx
               /\ task[i].rng = d.rng

C21_Witness ==
    /\ strategy = "readers"
    /\ wl.readers = 2
    /\ task[1].pc = "loop"
    /\ task[1].issued = 1
    /\ done_ops.failed = 1
    /\ task[2].pc = "op"
    /\ task[2].issued = 1
    /\ task[2].stream_idx # stream_at(wl.streams, seed_from_u64(seed), 1).stream_idx
    /\ clock > 0

\* "zipf" in every mix of upper and lower case.
ZipfSpellings ==
    {<<z, i, p, f>> : z \in {122, 90}, i \in {105, 73}, p \in {112, 80},
                      f \in {102, 70}}

\* C22: for every unique_streams, 0 included: a hot-set draw happens only
\* for a distribution that is "zipf" ignoring case and yields an index in
\* [0, min(100, unique_streams)); any other draw yields an index in
\* [0, unique_streams); the stream name is "stream-" and the decimal index.
C22_SelectionPolicy ==
    \A i \in Tasks :
        InIteration(i) =>
            /\ task[i].hot => wl.streams.distribution \in ZipfSpellings
            /\ task[i].stream_idx \in
                  IF task[i].hot
                  THEN 0..(Min(100, wl.streams.unique_streams) - 1)
                  ELSE 0..(wl.streams.unique_streams - 1)
            /\ task[i].stream.prefix = "stream-"
            /\ task[i].stream.digits = decimal(task[i].stream_idx)

\* n \div 10^k
floor_over_pow10(n, k) == big_divmod(cut_limbs(n, k \div 4).q, 10 ^ (k % 4)).q

\* The number a numeral writes, without its sign, times 2^bits, truncated.
truncated_product(n, bits) ==
    IF n.x >= 0 THEN big_scale(big_times(n.d, pow2(bits)), 10, n.x)
    ELSE floor_over_pow10(big_times(n.d, pow2(bits)), 0 - n.x)

\* The f64 nearest to the number a numeral writes, by the division of
\* nearest_f64.
numeral_f64(n) ==
    signed(n.neg, nearest_f64(big_scale(n.d, 10, n.x),
                              big_scale(One, 10, 0 - n.x)))

\* C27 as stated: a number followed by GiB, MiB, KiB or B, directly or after
\* a space as in the listed "1.5 GiB", parses to the number times 1024^3,
\* 1024^2, 1024 or 1, truncated; a number followed by any other suffix fails.
C27_TruncatedProduct ==
    (parse.pc = "returned" /\ parse.number.valid) =>
        /\ parse.suffix \in {GiB, MiB, KiB, B} =>
              /\ parse.out.ok
              /\ parse.out.v =
                    truncated_product(parse.number,
                                      KibiBits * factors_of(parse.suffix))
              /\ parse.number.neg => parse.out.v = <<>>
        /\ parse.suffix \notin {GiB, MiB, KiB, B} => ~parse.out.ok

\* C27: a number followed directly by GiB, MiB, KiB or B parses to the f64
\* nearest to the number, times 1024^3, 1024^2, 1024 or 1, truncated to a
\* u64: a negative product gives 0 and one beyond u64::MAX gives u64::MAX; a
\* number followed by any other suffix fails, and so does a number that a
\* space separates from its suffix.  1.5GiB, 512MiB, 1024KiB and 7B yield
\* 1610612736, 536870912, 1048576 and 7; "1.5 GiB", "512 MiB", "1024 KiB",
\* "7 B" and 1.0XB fail.
C27_MemorySize ==
    (parse.pc = "returned" /\ parse.number.valid) =>
        LET n == parse.number
            is(text, gap, suffix) ==
                n.text = text /\ parse.gap = gap /\ parse.suffix = suffix
        IN /\ (parse.suffix \in {GiB, MiB, KiB, B} /\ parse.gap = <<>>) =>
                 /\ parse.out.ok
                 /\ parse.out.v =
                       f64_as_u64(f64_times_pow2(
                                 numeral_f64(n),
                                 KibiBits * factors_of(parse.suffix)))
                 /\ big_le(parse.out.v, u64_MAX)
           /\ parse.suffix \notin {GiB, MiB, KiB, B} => ~parse.out.ok
           /\ parse.gap # <<>> => ~parse.out.ok
           /\ is(<<49, 46, 53>>, <<>>, GiB) =>
                 parse.out.v = big_of_nat(1610612736)
           /\ is(<<53, 49, 50>>, <<>>, MiB) =>
                 parse.out.v = big_of_nat(536870912)
           /\ is(<<49, 48, 50, 52>>, <<>>, KiB) =>
                 parse.out.v = big_of_nat(1048576)
           /\ is(<<55>>, <<>>, B) => parse.out.v = big_of_nat(7)
           /\ is(<<49, 46, 53>>, <<32>>, GiB) => parse.out = ParseErr
           /\ is(<<53, 49, 50>>, <<32>>, MiB) => parse.out = ParseErr
           /\ is(<<49, 48, 50, 52>>, <<32>>, KiB) => parse.out = ParseErr
           /\ is(<<55>>, <<32>>, B) => parse.out = ParseErr
           /\ is(<<49, 46, 48>>, <<>>, <<88, 66>>) => parse.out = ParseErr

C27_Witness ==
    /\ parse.pc = "returned"
    /\ parse.number.text = <<49, 46, 53>>
    /\ parse.suffix = GiB
    /\ parse.gap = <<>>
    /\ Head(parse.s) = 32
    /\ parse.out = [ok |-> TRUE, v |-> <<2736, 1061, 16>>]

\* C23: a snapshot that could not be obtained or parsed (the command failed,
\* its output, its CPU text or its memory text did not parse, or there is no
\* container id) adds nothing to the CPU samples nor to the memory samples:
\* each sequence holds one value per snapshot obtained and parsed.
C23_UnparsedSnapshotSkipped ==
    /\ Len(sampler.cpu_samples) = sampler.parsed
    /\ Len(sampler.mem_samples) = sampler.parsed

\* C24: a run with writers >= 1, readers = 0 and duration_seconds >= 1 whose
\* appends always succeed completes, and when one of them has begun and
\* returned within the window, with events_written > 0, throughput_eps > 0,
\* samples and events_read = 0.
C24_WritersRunProgress ==
    <>(/\ phase = "returned"
       /\ result.kind = "Ok"
       /\ done_ops.in_window > 0 =>
             /\ metrics.summary.events_written > 0
             /\ metrics.summary.throughput_eps.num > 0
             /\ metrics.samples # <<>>
             /\ metrics.summary.events_read = 0)

\* C25: when run_workload returns an error, the run command exits with an
\* error and has written none of summary.json, samples.jsonl, run.meta.json.
C25_NoArtifactsOnError ==
    cli.run = "Err" =>
        /\ cli.pc = "exit"
        /\ cli.exit = "Err"
        /\ cli.written = {}

C25_Witness ==
    /\ cli.run = "Err"
    /\ cli.pc = "exit"
    /\ cli.run_dir # NoDir

\* C26: the run directory's name is the adapter name followed by _w{W} when
\* W > 0 and R = 0, by _r{R} when R > 0 and W = 0, and by _w{W}_r{R}
\* otherwise.
C26_RunDirName ==
    cli.run_dir # NoDir =>
        LET W == wl.writers
            R == wl.readers
            w_part == [tag |-> "_w", n |-> decimal(W)]
            r_part == [tag |-> "_r", n |-> decimal(R)]
        IN /\ cli.run_dir.adapter = cli.adapter_name
           /\ (W > 0 /\ R = 0) => cli.run_dir.parts = <<w_part>>
           /\ (R > 0 /\ W = 0) => cli.run_dir.parts = <<r_part>>
           /\ ~(W > 0 /\ R = 0) /\ ~(R > 0 /\ W = 0) =>
                 cli.run_dir.parts = <<w_part, r_part>>

C26_Witness ==
    /\ cli.run_dir # NoDir
    /\ cli.store = UmaDB
    /\ wl.writers > 0
    /\ wl.readers > 0
    /\ Len(cli.run_dir.parts) = 2

\* C28: the summary of every successful run has duration_s equal to the
\* workload's duration_seconds, whatever time the run took with its warmup,
\* its cooldown, the container's start and the sampler's last sleep.
C28_DurationIsDeclaredWindow ==
    (phase = "returned" /\ result.kind = "Ok") =>
        result.metrics.summary.duration_s = wl.duration_seconds

C28_Witness ==
    /\ phase = "returned"
    /\ result.kind = "Ok"
    /\ container_manager = "stopped"
    /\ result.metrics.summary.duration_s = 1
    /\ clock - instants.start_at >= from_secs(3)

\* The latencies the tasks have recorded, and the events the reader tasks
\* have counted.
recorded_ops == SumSeq([i \in 1..MaxTasks |-> hist_len(task[i].rec)])

counted_events == SumSeq([i \in 1..MaxTasks |-> task[i].total_events_read])

\* The most events one read returns.
max_read_count == CHOOSE m \in ReadCounts : \A c \in ReadCounts : c <= m

\* C29: in ConcurrentReaders a successful read adds the number of events it
\* returned to its task's count and a failed read adds nothing; a task that
\* has issued a read, failed or not, keeps issuing reads until end_at and
\* ends in no other way; the strategy returns events_written = 0, the events
\* its tasks counted as events_read, and samples whose op is "read".
C29_ReadersCountAndContinue ==
    strategy = "readers" =>
        /\ counted_events <= max_read_count * (completed_ops - done_ops.failed)
        /\ counted_events = done_ops.events_in_window + done_ops.events_outside
        /\ \A i \in Spawned :
              (task[i].issued >= 1 /\ ~InIteration(i) /\ task[i].pc # "loop") =>
                  /\ task[i].pc = "done"
                  /\ clock >= end_at
        /\ \A k \in 1..Len(samples) : samples[k].op = "read"
        /\ Returned =>
              /\ result.events_written = 0
              /\ result.events_read = counted_events
              /\ \A k \in 1..Len(result.samples) : result.samples[k].op = "read"

\* C30 as stated: every operation that has returned is in its task's latency
\* histogram, at whatever instant it returned.
C30_EveryOperationRecorded ==
    recorded_ops = completed_ops

\* C30: an operation is recorded in its task's latency histogram exactly when
\* it returned inside the measurement window, the same test that decides the
\* push of its RawSample; one that returned during warmup or cooldown is not
\* recorded.
C30_RecordedWhenInWindow ==
    /\ recorded_ops = done_ops.in_window
    /\ recorded_ops = Len(samples)
                        + Cardinality({i \in Tasks : task[i].pc \in {"lock", "push"}})

C30_Witness ==
    /\ completed_ops = 2
    /\ recorded_ops = 1
    /\ Len(samples) = 1
    /\ clock >= measurement_end

\* The phase the three instants give to a reading of the clock.
phase_at(now) ==
    IF now < measurement_start THEN "warmup"
    ELSE IF now <= measurement_end THEN "measuring"
    ELSE IF now < end_at THEN "cooldown"
    ELSE "done"

phase_rank(p) ==
    CASE p = "warmup" -> 0
      [] p = "measuring" -> 1
      [] p = "cooldown" -> 2
      [] p = "done" -> 3

\* The instant at which the operation of a task's current iteration returned:
\* t0 plus the whole milliseconds of dt.
completed_at(t) == t.t0 + t.dt.secs * MsPerSec + t.dt.nanos \div NanosPerMs

\* C31: while the tasks run, the phase given by the clock never goes back;
\* a task starts an operation only before end_at and ends only at or after
\* it; an operation that returns is on its way to the samples buffer exactly
\* when the clock at its return is inside the measurement window, whenever
\* it was started; every sample pushed belongs to an operation that returned
\* inside the window, so that a task whose operation returned after
\* measurement_end pushes no sample from then on.
C31_PhasesByClock ==
    [][Running =>
        /\ instants' = instants
        /\ phase_rank(phase_at(clock')) >= phase_rank(phase_at(clock))
        /\ \A i \in Tasks :
              /\ (task[i].pc = "loop" /\ task'[i].pc = "op") =>
                    phase_at(clock) # "done"
              /\ (task[i].pc = "loop" /\ task'[i].pc = "done") =>
                    phase_at(clock) = "done"
              /\ (task[i].pc = "op" /\ task'[i].pc # "op") =>
                    /\ task'[i].pc = "lock" <=> phase_at(clock) = "measuring"
                    /\ task'[i].pc # "lock" =>
                          task'[i].pc = "loop" /\ samples' = samples
                    /\ task'[i].pc = "lock" => completed_at(task'[i]) = clock
              /\ (task[i].pc = "push" /\ task'[i].pc # "push") =>
                    /\ Len(samples') = Len(samples) + 1
                    /\ phase_at(completed_at(task[i])) = "measuring"
        /\ samples' # samples =>
              \E i \in Tasks : task[i].pc = "push" /\ task'[i].pc = "loop"
     ]_vars

\* One task: its first operation was started in warmup, returned at
\* measurement_start and was sampled; its second was started inside the
\* window, returned after measurement_end and was not.
C31_Witness ==
    /\ Cardinality(Spawned) = 1
    /\ completed_ops = 2
    /\ done_ops.in_window = 1
    /\ Len(samples) = 1
    /\ samples[1].t_ms = measurement_start
    /\ samples[1].latency_us >= from_secs(WarmupSecs) * MsPerSec
    /\ clock > measurement_end

\* C32: a task issues an operation only from the head of its loop, when the
\* operation before it has returned and every sample the task recorded is in
\* the buffer (the samples not yet pushed belong to other tasks), and it is
\* then not the holder of the samples mutex; no client instance has more
\* than one operation outstanding.  Tasks do not wait for one another to
\* issue.
C32_TaskOperationsSerial ==
    [][/\ \A i \in Tasks :
             task'[i].issued # task[i].issued =>
                /\ task'[i].issued = task[i].issued + 1
                /\ task[i].pc = "loop"
                /\ task'[i].pc = "op"
                /\ samples_lock # i
                /\ Len(samples) =
                      recorded_ops
                        - Cardinality({j \in Tasks \ {i} :
                                         task[j].pc \in {"lock", "push"}})
       /\ \A a \in 1..MaxTasks :
             Cardinality({i \in Tasks : /\ task'[i].pc = "op"
                                        /\ task'[i].adapter = a}) <= 1
     ]_vars

\* A task is in its second operation, the first one returned inside the
\* window and its sample is in the buffer.
C32_Witness ==
    \E i \in Tasks :
        /\ task[i].pc = "op"
        /\ task[i].issued = 2
        /\ hist_len(task[i].rec) = 1
        /\ Len(samples) = 1
        /\ samples_lock = 0

\* The stats loop ends a turn in this step: without a container id it goes
\* to sleep at once, with one when get_container_stats has returned.
SamplerTurn ==
    sampler.pc \in {"run", "stats"} /\ sampler'.pc = "run" /\ sampler' # sampler

\* The runner has joined the sampler: stats_handle.await has returned.
SamplerJoined == phase \in {"stop", "returned"} /\ metrics.kind = "Some"

\* The turns of the stats loop are started before end_at, a turn is started
\* one second after the one before has ended at the earliest, and the Vecs
\* grow by one snapshot a turn at the most.
C33_OneSnapshotPerPeriod ==
    [][SamplerTurn =>
          LET started == IF sampler.pc = "stats" THEN sampler.since ELSE clock
          IN /\ started < end_at
             /\ started >= sampler.wake
             /\ sampler'.wake = clock + from_secs(1)
             /\ Len(sampler'.cpu_samples) <= Len(sampler.cpu_samples) + 1
             /\ Len(sampler'.mem_samples) = Len(sampler'.cpu_samples)
     ]_vars

\* Once launched, the stats loop ends, with or without a container id and
\* whatever its snapshots gave.
C33_SamplerEnds == (sampler.pc = "run") ~> (sampler.pc = "done")

\* C33: the sampler takes one snapshot per one-second period and none at or
\* after end_at, it ends whether or not there is a container id and whether
\* or not its snapshots succeed, and the runner's join of it completes.
C33_SamplerTerminatesAndIsJoined ==
    /\ C33_OneSnapshotPerPeriod
    /\ C33_SamplerEnds
    /\ (sampler.pc = "run") ~> SamplerJoined

\* v is the greatest of 0.0 and the f64 of the non-empty sequence q.
IsPeakOf(v, q) ==
    /\ v = Zero(FALSE) \/ \E k \in 1..Len(q) : q[k] = v
    /\ ~f64_lt(v, Zero(FALSE))
    /\ \A k \in 1..Len(q) : ~f64_lt(v, q[k])

\* v is the greatest element of the non-empty sequence q of u64.
IsMaximumOf(v, q) ==
    /\ \E k \in 1..Len(q) : q[k] = v
    /\ \A k \in 1..Len(q) : big_le(q[k], v)

\* The f64 of the sequence q, none of them negative, an infinity or NaN, in
\* units of 2^x, and their sum.
RECURSIVE sum_in_units(_, _)
sum_in_units(q, x) ==
    IF q = <<>> THEN <<>>
    ELSE big_add(IF Head(q).q = <<>> THEN <<>>
                 ELSE big_times(Head(q).q, pow2(Head(q).e - x)),
                 sum_in_units(Tail(q), x))

least_exponent(q) ==
    CHOOSE x \in {q[k].e : k \in 1..Len(q)} :
       \A k \in 1..Len(q) : x <= q[k].e

\* |a - b| of two numbers.
big_distance(a, b) == IF big_lt(a, b) THEN big_sub(b, a) ELSE big_sub(a, b)

\* v is the mean of the f64 of q as f64 arithmetic gives it: n * v is the
\* sum within the roundings of the n - 1 additions and of the division, within
\* 2^-52 of their results in all.
mean_within(v, total, n, x) ==
    big_le(big_times(big_distance(big_mul(v, n), total), Two52),
           big_add(big_mul(total, n - 1), big_mul(v, n)))
IsMeanOf(v, q) ==
    /\ v.kind = "finite" /\ ~v.neg
    /\ \E x \in {least_exponent(Append(q, v))} :
          mean_within(sum_in_units(<<v>>, x), sum_in_units(q, x), Len(q), x)

\* C34: in the RunMetrics of a run, each of the four aggregate fields is
\* present exactly when the sampler collected a sample of its kind;
\* avg_memory_bytes is the mean of the memory samples rounded down,
\* avg_cpu_percent the mean of the CPU samples, and the peaks are the
\* greatest samples; a run without a container manager, or whose snapshots
\* all failed, has none of the four.
C34_ContainerAggregates ==
    metrics.kind = "Some" =>
        LET c == metrics.summary.container
            cpu == sampler.cpu_samples
            mem == sampler.mem_samples
        IN /\ c.avg_cpu_percent.some <=> cpu # <<>>
           /\ c.peak_cpu_percent.some <=> cpu # <<>>
           /\ c.avg_memory_bytes.some <=> mem # <<>>
           /\ c.peak_memory_bytes.some <=> mem # <<>>
           /\ cpu # <<>> =>
                 /\ IsMeanOf(c.avg_cpu_percent.value, cpu)
                 /\ IsPeakOf(c.peak_cpu_percent.value, cpu)
           /\ mem # <<>> =>
                 /\ big_le(big_mul(c.avg_memory_bytes.value, Len(mem)),
                           big_sum(mem))
                 /\ big_lt(big_sum(mem),
                           big_mul(big_add(c.avg_memory_bytes.value, One),
                                   Len(mem)))
                 /\ IsMaximumOf(c.peak_memory_bytes.value, mem)
           /\ (container_manager = "None" \/ cpu = <<>>) =>
                 /\ ~c.avg_cpu_percent.some
                 /\ ~c.peak_cpu_percent.some
                 /\ ~c.avg_memory_bytes.some
                 /\ ~c.peak_memory_bytes.some

\* A run with a container whose three snapshots gave different values: the
\* memory mean is rounded down and the peaks are not the last samples.
C34_Witness ==
    /\ metrics.kind = "Some"
    /\ Len(sampler.mem_samples) = 3
    /\ big_divmod(big_sum(sampler.mem_samples), 3).r # 0
    /\ big_lt(sampler.mem_samples[3], sampler.mem_samples[1])
    /\ f64_lt(sampler.cpu_samples[3], sampler.cpu_samples[2])
    /\ metrics.summary.container.avg_memory_bytes.some

\* The samples buffer changes in this step.
BufferChanges == samples' # samples

\* C35: a strategy that has joined all its tasks returns as many RawSamples
\* as its merged histogram counts; the buffer changes only by the push of the
\* task that holds the mutex, which appends the sample of that task's
\* current operation behind the samples already there and ends the
\* iteration, so that no sample is dropped, doubled or moved and a task's
\* samples lie in the order of its operations.
C35_SamplesKeptInOrder ==
    /\ [](Returned =>
            /\ Len(result.samples) = hist_len(result.overall)
            /\ result.samples = samples
            /\ Len(samples) = done_ops.in_window)
    /\ [][BufferChanges =>
            \E i \in Tasks :
               /\ samples_lock = i
               /\ task[i].pc = "push"
               /\ samples' = Append(samples,
                                RawSample(clock, OpName, task[i].dt,
                                          task[i].ok))
               /\ task'[i].pc = "loop"
               /\ \A j \in Tasks \ {i} : task'[j] = task[j]
        ]_vars

\* Two tasks were joined and the strategy returned two samples.
C35_Witness ==
    /\ Returned
    /\ Cardinality(joined) = 2
    /\ Len(result.samples) = 2
    /\ hist_len(result.overall) = 2

\* run_workload has finished: it returned, or it panicked.
Finished == phase \in {"returned", "panicked"}

\* C36: when run_workload has finished, by a return or by a panic, a
\* container whose start succeeded has had stop called on it.
C36_StartedContainerIsStopped ==
    Finished => container_manager # "started"

\* C37: from the return of a teardown of the Axon Server adapter until
\* connect or setup is called, the adapter holds no client, and an append,
\* read or ping called in that time fails with the not-connected error,
\* whatever operation was in flight while teardown ran.
C37_NoClientAfterTeardown ==
    /\ ad.torn_down => ~ad.client
    /\ ad.last.after_teardown => ~ad.last.ok /\ ad.last.not_connected

\* The command was given a store or a workflow that no factory is named after.
UnknownName ==
    \/ to_lowercase(cli.store) \notin adapter_factories
    \/ to_lowercase(cli.workflow) \notin workflow_factories

\* C38: a run command that was given an unknown store or workflow name and
\* has exited with its error has created neither the workload directory nor
\* the run directory.
C38_ConfigErrorCreatesNothing ==
    (cli.pc = "exit" /\ cli.exit = "Err" /\ UnknownName) =>
        ~cli.workload_dir /\ cli.run_dir = NoDir

====
